---- MODULE Spec2Model ----
(***************************************************************************)
(* Model of the XSD resolver (xsd.go) and of the validation engine of      *)
(* moolekkari/validatexml-go.                                              *)
(*                                                                         *)
(* Strings that the code splits on ':' (element and type names, namespace  *)
(* URIs) are sequences of ':'-free segments: "xs:string" is                *)
(* <<"xs","string">>, "" is <<"">>, and prefix + ":" + name is             *)
(* <<prefix>> \o name.  File paths are records [abs, comps] holding the    *)
(* '/'-separated components: "" is <<"">>, the cleaned path "." is <<>>.   *)
(***************************************************************************)
EXTENDS Integers, Sequences, FiniteSets, TLC

VARIABLES input, pc, stack, visited, loads, err, result, doc, report, calls

vars == <<input, pc, stack, visited, loads, err, result, doc, report, calls>>

\* ---------------------------------------------------------------- bounds
MaxDepth == 6
MaxIncludes == 1
MaxImports == 1
MaxChildren == 2

\* ----------------------------------------------------------- basic values
Nil == [kind |-> "nil"]
NoError == [kind |-> "none"]
EmptyStr == <<"">>
Str(s) == <<s>>

Last(s) == s[Len(s)]
Front(s) == SubSeq(s, 1, Len(s) - 1)
Range(s) == {s[i] : i \in 1..Len(s)}

\* ------------------------------------------------------ path/filepath
Path(abs, comps) == [abs |-> abs, comps |-> comps]
EmptyPath == Path(FALSE, <<"">>)
Dot == Path(FALSE, <<>>)
Cwd == Path(TRUE, <<"w">>)

RECURSIVE CleanFrom(_, _, _)
CleanFrom(abs, comps, out) ==
    IF comps = <<>> THEN out
    ELSE LET c == Head(comps)
             rest == Tail(comps)
         IN IF c = "" \/ c = "." THEN CleanFrom(abs, rest, out)
            ELSE IF c = ".."
                 THEN IF out # <<>> /\ Last(out) # ".."
                      THEN CleanFrom(abs, rest, Front(out))
                      ELSE IF abs THEN CleanFrom(abs, rest, out)
                           ELSE CleanFrom(abs, rest, Append(out, ".."))
                 ELSE CleanFrom(abs, rest, Append(out, c))

Clean(p) == Path(p.abs, CleanFrom(p.abs, p.comps, <<>>))
IsAbs(p) == p.abs
Join(base, loc) == Clean(Path(base.abs, base.comps \o loc.comps))
Dir(p) == Clean(Path(p.abs, Front(p.comps)))
Abs(p) == IF IsAbs(p) THEN Clean(p) ELSE Join(Cwd, p)

IsURL(loc) ==
    /\ ~loc.abs
    /\ Len(loc.comps) >= 3
    /\ loc.comps[1] \in {"http:", "https:"}
    /\ loc.comps[2] = ""

\* ------------------------------------------------------- schema model
XS == <<"http", "//www.w3.org/2001/XMLSchema">>

Facet(value) == [kind |-> "facet", Value |-> value]

Restriction(base, minLength, maxLength, pattern, minInclusive, maxInclusive, enumeration) ==
    [kind |-> "restriction", Base |-> base,
     MinLength |-> minLength, MaxLength |-> maxLength, Pattern |-> pattern,
     MinInclusive |-> minInclusive, MaxInclusive |-> maxInclusive,
     Enumeration |-> enumeration]

SimpleType(name, restriction) ==
    [kind |-> "simpleType", Name |-> name, Restriction |-> restriction]

Attribute(name, type, use, fixed, simpleType) ==
    [kind |-> "attribute", Name |-> name, Type |-> type, Use |-> use,
     Default |-> "", Fixed |-> fixed, SimpleType |-> simpleType]

Sequence(elements) ==
    [kind |-> "sequence", Elements |-> elements, MinOccurs |-> "", MaxOccurs |-> ""]

Choice(elements, sequences, choices, minOccurs, maxOccurs) ==
    [kind |-> "choice", Elements |-> elements, Sequences |-> sequences,
     Choices |-> choices, MinOccurs |-> minOccurs, MaxOccurs |-> maxOccurs]

All(elements) == [kind |-> "all", Elements |-> elements, MinOccurs |-> ""]

ComplexType(name, sequence, choice, all, attributes) ==
    [kind |-> "complexType", Name |-> name, Sequence |-> sequence,
     Choice |-> choice, All |-> all, Attributes |-> attributes]

Element(name, type, minOccurs, maxOccurs, complexType, simpleType) ==
    [kind |-> "element", Name |-> name, Type |-> type,
     MinOccurs |-> minOccurs, MaxOccurs |-> maxOccurs,
     ComplexType |-> complexType, SimpleType |-> simpleType]

Import(namespace, schemaLocation) ==
    [Namespace |-> namespace, SchemaLocation |-> schemaLocation]

Include(schemaLocation) == [SchemaLocation |-> schemaLocation]

\* The text of a schema document, as far as the decoder reads it.
SchemaText(wellFormed, tns, xmlnsDecl, elements, cts, sts, imports, includes) ==
    [wellFormed |-> wellFormed, TargetNamespace |-> tns,
     ElementFormDefault |-> "", XmlnsDecl |-> xmlnsDecl,
     Elements |-> elements, ComplexTypes |-> cts,
     SimpleTypes |-> sts, Imports |-> imports, Includes |-> includes]

EmptyMap == [n \in {} |-> 0]

\* ------------------------------------------------------ lookup maps
Names(coll) == {coll[i].Name : i \in 1..Len(coll)}

\* The duplicate check dropped from the loop.
BadIndexes_missingOnly(coll) == {i \in 1..Len(coll) : coll[i].Name = EmptyStr}

\* Indexes at which the loop of buildElementMap (and its two siblings) returns an error.
BadIndexes(coll) ==
    {i \in 1..Len(coll) :
        \/ coll[i].Name = EmptyStr
        \/ \E j \in 1..(i - 1) : coll[j].Name = coll[i].Name}

FirstBad(coll) == CHOOSE i \in BadIndexes(coll) : \A j \in BadIndexes(coll) : i <= j

buildMapError(coll, what) ==
    IF BadIndexes(coll) = {} THEN NoError
    ELSE IF coll[FirstBad(coll)].Name = EmptyStr
         THEN [kind |-> "missing_name", what |-> what]
         ELSE [kind |-> "duplicate", what |-> what]

\* The map itself: name -> position of the definition in the collection.
buildMap(coll) ==
    [n \in Names(coll) |-> CHOOSE i \in 1..Len(coll) : coll[i].Name = n]

buildElementMap(s) == buildMapError(s.Elements, "element")
buildComplexTypeMap(s) == buildMapError(s.ComplexTypes, "complexType")
buildSimpleTypeMap(s) == buildMapError(s.SimpleTypes, "simpleType")

buildLookupMapsError(s) ==
    IF buildElementMap(s) # NoError THEN buildElementMap(s)
    ELSE IF buildComplexTypeMap(s) # NoError THEN buildComplexTypeMap(s)
    ELSE buildSimpleTypeMap(s)

buildLookupMaps(s) ==
    [s EXCEPT !.ElementMap = buildMap(s.Elements),
              !.ComplexTypeMap = buildMap(s.ComplexTypes),
              !.SimpleTypeMap = buildMap(s.SimpleTypes)]

extractNamespaces(xsdBytes) ==
    IF "xs" \in DOMAIN xsdBytes.XmlnsDecl THEN xsdBytes.XmlnsDecl
    ELSE xsdBytes.XmlnsDecl @@ ("xs" :> XS)

\* Schema as decoded, before the lookup maps are built.
DecodedSchema(xsdBytes) ==
    [TargetNamespace |-> xsdBytes.TargetNamespace,
     ElementFormDefault |-> xsdBytes.ElementFormDefault,
     Xmlns |-> extractNamespaces(xsdBytes),
     Elements |-> xsdBytes.Elements,
     ComplexTypes |-> xsdBytes.ComplexTypes,
     SimpleTypes |-> xsdBytes.SimpleTypes,
     Imports |-> xsdBytes.Imports,
     Includes |-> xsdBytes.Includes,
     ElementMap |-> EmptyMap, ComplexTypeMap |-> EmptyMap, SimpleTypeMap |-> EmptyMap]

parseBasicXSDError(xsdBytes) ==
    IF ~xsdBytes.wellFormed THEN [kind |-> "decode"]
    ELSE buildLookupMapsError(DecodedSchema(xsdBytes))

parseBasicXSD(xsdBytes) == buildLookupMaps(DecodedSchema(xsdBytes))

getNamespacePrefixes(s, namespace) ==
    {prefix \in DOMAIN s.Xmlns : s.Xmlns[prefix] = namespace /\ prefix # ""}

WithPrefix(coll, prefix) ==
    [i \in 1..Len(coll) |-> [coll[i] EXCEPT !.Name = <<prefix>> \o @]]

\* The prefix put on the element names only.
mergeImportedSchemaWithPrefix_elementsOnly(s, importedSchema, prefix) ==
    [s EXCEPT !.Elements = @ \o WithPrefix(importedSchema.Elements, prefix),
              !.ComplexTypes = @ \o importedSchema.ComplexTypes,
              !.SimpleTypes = @ \o importedSchema.SimpleTypes]

mergeImportedSchemaWithPrefix(s, importedSchema, prefix) ==
    [s EXCEPT !.Elements = @ \o WithPrefix(importedSchema.Elements, prefix),
              !.ComplexTypes = @ \o WithPrefix(importedSchema.ComplexTypes, prefix),
              !.SimpleTypes = @ \o WithPrefix(importedSchema.SimpleTypes, prefix)]

\* Only the elements appended.
mergeVerbatim_elementsOnly(s, other) == [s EXCEPT !.Elements = @ \o other.Elements]

\* A definition appended only when its name is not in the collection yet.
mergeVerbatim_oncePerName(s, other) ==
    [s EXCEPT !.Elements = @ \o SelectSeq(other.Elements, LAMBDA d : d.Name \notin Names(s.Elements)),
              !.ComplexTypes = @ \o SelectSeq(other.ComplexTypes, LAMBDA d : d.Name \notin Names(s.ComplexTypes)),
              !.SimpleTypes = @ \o SelectSeq(other.SimpleTypes, LAMBDA d : d.Name \notin Names(s.SimpleTypes))]

mergeVerbatim(s, other) ==
    [s EXCEPT !.Elements = @ \o other.Elements,
              !.ComplexTypes = @ \o other.ComplexTypes,
              !.SimpleTypes = @ \o other.SimpleTypes]

\* ------------------------------------------- schema documents on disk
NsAddr == <<"urn", "addr">>
NsOther == <<"urn", "other">>
NsB == <<"urn", "b">>
NsXml == <<"http", "//www.w3.org/XML/1998/namespace">>

XsOnly == ("xs" :> XS)

Rel(comps) == Path(FALSE, comps)
NoLocation == EmptyPath
UrlU == Rel(<<"http:", "", "h", "u.xsd">>)

StringEl(name) == Element(Str(name), <<"xs", "string">>, "", "", Nil, Nil)

ZipCodeType ==
    SimpleType(Str("ZipCodeType"),
               Restriction(<<"xs", "string">>, Nil, Facet("5"), Facet("[0-9]{5}"), Nil, Nil, <<>>))

AddressType ==
    ComplexType(Str("AddressType"),
                Sequence(<<StringEl("street"),
                           Element(Str("zipcode"), Str("ZipCodeType"), "0", "", Nil, Nil)>>),
                Nil, Nil, <<>>)

Plain(elements, complexTypes, simpleTypes, includes) ==
    SchemaText(TRUE, EmptyStr, XsOnly, elements, complexTypes, simpleTypes, <<>>, includes)

\* Files below the working directory /w, by cleaned absolute path.
Files ==
    (<<"w", "a.xsd">> :> Plain(<<StringEl("elementA")>>, <<>>, <<>>, <<Include(Rel(<<"b.xsd">>))>>))
    @@ (<<"w", "b.xsd">> :> Plain(<<StringEl("elementB")>>, <<>>, <<>>, <<Include(Rel(<<"a.xsd">>))>>))
    @@ (<<"w", "leaf.xsd">> :> Plain(<<>>, <<>>, <<ZipCodeType>>, <<>>))
    @@ (<<"w", "mid.xsd">> :> Plain(<<>>, <<AddressType>>, <<>>, <<Include(Rel(<<"leaf.xsd">>))>>))
    @@ (<<"w", "sub", "c.xsd">> :> Plain(<<StringEl("c")>>, <<>>, <<>>, <<Include(Rel(<<"d.xsd">>))>>))
    @@ (<<"w", "sub", "d.xsd">> :>
            Plain(<<StringEl("d")>>, <<>>, <<>>, <<Include(Rel(<<"..", "sub", "c.xsd">>))>>))
    @@ (<<"w", "bad.xsd">> :> SchemaText(FALSE, EmptyStr, XsOnly, <<>>, <<>>, <<>>, <<>>, <<>>))
    @@ (<<"w", "noname.xsd">> :>
            Plain(<<StringEl("n"), Element(EmptyStr, <<"xs", "string">>, "", "", Nil, Nil)>>,
                  <<>>, <<>>, <<>>))
    @@ (<<"w", "dup.xsd">> :>
            Plain(<<>>, <<ComplexType(Str("T"), Nil, Nil, Nil, <<>>),
                          ComplexType(Str("T"), Nil, Nil, Nil, <<>>)>>, <<>>, <<>>))
    @@ (<<"w", "cross.xsd">> :>
            Plain(<<StringEl("t")>>, <<ComplexType(Str("t"), Nil, Nil, Nil, <<>>)>>,
                  <<SimpleType(Str("t"), Nil)>>, <<>>))
    @@ (<<"w", "two.xsd">> :>
            Plain(<<StringEl("two")>>, <<>>, <<>>,
                  <<Include(Rel(<<"cross.xsd">>)), Include(Rel(<<"nofile.xsd">>)),
                    Include(Rel(<<"leaf.xsd">>))>>))
    @@ (<<"w", "addr.xsd">> :>
            SchemaText(TRUE, NsAddr, XsOnly,
                       <<Element(Str("address"), Str("AddressType"), "", "", Nil, Nil)>>,
                       <<AddressType>>, <<>>,
                       <<Import(NsXml, NoLocation)>>, <<Include(Rel(<<"leaf.xsd">>))>>))
    @@ (<<"w", "m1.xsd">> :>
            SchemaText(TRUE, NsAddr, XsOnly, <<StringEl("m1")>>, <<>>, <<>>,
                       <<Import(NsB, Rel(<<"m2.xsd">>))>>, <<>>))
    @@ (<<"w", "m2.xsd">> :>
            SchemaText(TRUE, NsB, XsOnly, <<StringEl("m2")>>, <<>>, <<>>,
                       <<>>, <<Include(Rel(<<"m1.xsd">>))>>))
    @@ (<<"w", "noloc.xsd">> :>
            Plain(<<StringEl("q")>>, <<>>, <<>>, <<Include(NoLocation)>>))
    @@ (<<"w", "side.xsd">> :>
            Plain(<<StringEl("side")>>, <<>>, <<>>, <<Include(Rel(<<"leaf.xsd">>))>>))
    @@ (<<"w", "dia.xsd">> :>
            Plain(<<StringEl("dia")>>, <<>>, <<>>,
                  <<Include(Rel(<<"mid.xsd">>)), Include(Rel(<<"side.xsd">>))>>))

\* Documents served over HTTP, by URL.
Net ==
    (UrlU.comps :> Plain(<<StringEl("u")>>, <<>>, <<>>, <<Include(UrlU)>>))

\* The document a load addresses: a URL or a file of the working tree.
Source(url, at) == [url |-> url, at |-> at]

\* loadSchema: [ok, bytes], and the document that was addressed
loadSchema(schemaLocation, basePath) ==
    IF IsURL(schemaLocation)
    THEN IF schemaLocation.comps \in DOMAIN Net
         THEN [ok |-> TRUE, bytes |-> Net[schemaLocation.comps],
               source |-> Source(TRUE, schemaLocation.comps)]
         ELSE [ok |-> FALSE, bytes |-> Nil, source |-> Source(TRUE, schemaLocation.comps)]
    ELSE LET path == IF ~IsAbs(schemaLocation) /\ basePath # EmptyPath
                     THEN Join(basePath, schemaLocation)
                     ELSE schemaLocation
             file == Abs(path).comps
         IN IF file \in DOMAIN Files
            THEN [ok |-> TRUE, bytes |-> Files[file], source |-> Source(FALSE, file)]
            ELSE [ok |-> FALSE, bytes |-> Nil, source |-> Source(FALSE, file)]

\* ------------------------------------------------ inputs of ParseXSD
SeqsUpTo(S, n) == UNION {[1..k -> S] : k \in 0..n}

IncludeMenu ==
    {Include(Rel(<<"a.xsd">>)), Include(Rel(<<"mid.xsd">>)), Include(Rel(<<"leaf.xsd">>)),
     Include(Path(TRUE, <<"w", "sub", "c.xsd">>)), Include(NoLocation), Include(UrlU),
     Include(Rel(<<"two.xsd">>)), Include(Rel(<<"bad.xsd">>)), Include(Rel(<<"noname.xsd">>)),
     Include(Rel(<<"cross.xsd">>)), Include(Rel(<<"dia.xsd">>))}

ImportMenu ==
    {Import(NsAddr, Rel(<<"addr.xsd">>)), Import(NsOther, Rel(<<"addr.xsd">>)),
     Import(EmptyStr, Rel(<<"dup.xsd">>)), Import(NsXml, NoLocation),
     Import(NsAddr, Rel(<<"m1.xsd">>)), Import(NsAddr, Rel(<<"noloc.xsd">>))}

PersonElement ==
    Element(Str("person"), EmptyStr, "", "",
            ComplexType(EmptyStr,
                        Sequence(<<StringEl("name"),
                                   Element(Str("address"), Str("AddressType"), "0", "", Nil, Nil)>>),
                        Nil, Nil, <<>>),
            Nil)

ContactElement ==
    Element(Str("contact"), EmptyStr, "", "",
            ComplexType(EmptyStr, Nil,
                        Choice(<<StringEl("email"),
                                 Element(Str("phone"), <<"xs", "integer">>, "", "", Nil, Nil)>>,
                               <<>>, <<>>, "", ""),
                        Nil, <<>>),
            Nil)

\* The same choice with maxOccurs written out: "unbounded" and "2".
ChoiceElement(name, maxOccurs) ==
    Element(Str(name), EmptyStr, "", "",
            ComplexType(EmptyStr, Nil,
                        Choice(<<StringEl("email"),
                                 Element(Str("phone"), <<"xs", "integer">>, "", "", Nil, Nil)>>,
                               <<>>, <<>>, "", maxOccurs),
                        Nil, <<>>),
            Nil)

ContactsElement == ChoiceElement("contacts", "unbounded")

ContactPairElement == ChoiceElement("contactpair", "2")

ConfigElement ==
    Element(Str("config"), EmptyStr, "", "",
            ComplexType(EmptyStr, Nil, Nil,
                        All(<<StringEl("host"),
                              Element(Str("port"), <<"xs", "integer">>, "0", "unbounded",
                                      Nil, Nil)>>),
                        <<Attribute(Str("mode"), <<"xs", "string">>, "required", "", Nil),
                          Attribute(Str("version"), EmptyStr, "", "1", Nil)>>),
            Nil)

\* A sequence with occurrence bounds written out, one of its members named with the
\* prefix that the schema binds to the address namespace.
OrderElement ==
    Element(Str("order"), EmptyStr, "", "",
            ComplexType(EmptyStr,
                        Sequence(<<Element(Str("item"), <<"xs", "string">>, "1", "1", Nil, Nil),
                                   Element(Str("note"), <<"xs", "string">>, "0", "unbounded",
                                           Nil, Nil),
                                   Element(<<"addr", "street">>, <<"xs", "string">>, "1", "1",
                                           Nil, Nil)>>),
                        Nil, Nil, <<>>),
            Nil)

\* A schema whose author wrote maxOccurs="many" and maxInclusive value="high".
BatchElement ==
    Element(Str("batch"), EmptyStr, "", "",
            ComplexType(EmptyStr,
                        Sequence(<<Element(Str("entry"), <<"xs", "string">>, "", "many", Nil, Nil),
                                   Element(Str("size"), EmptyStr, "0", "", Nil,
                                           SimpleType(EmptyStr,
                                                      Restriction(<<"xs", "integer">>, Nil, Nil,
                                                                  Nil, Nil, Facet("high"),
                                                                  <<>>)))>>),
                        Nil, Nil, <<>>),
            Nil)

\* An element whose complex type has no content model.
MarkerElement ==
    Element(Str("marker"), EmptyStr, "", "", ComplexType(EmptyStr, Nil, Nil, Nil, <<>>), Nil)

NsP == <<"urn", "p">>

RootBodies ==
    {SchemaText(TRUE, EmptyStr, XsOnly,
                <<PersonElement, ContactElement, ConfigElement, ContactsElement,
                  ContactPairElement, MarkerElement>>,
                <<>>, <<>>, <<>>, <<>>),
     SchemaText(TRUE, EmptyStr, XsOnly @@ ("addr" :> NsAddr), <<PersonElement, OrderElement>>,
                <<>>, <<ZipCodeType>>, <<>>, <<>>),
     SchemaText(TRUE, EmptyStr, XsOnly, <<BatchElement>>, <<>>, <<>>, <<>>, <<>>),
     [SchemaText(TRUE, NsP, XsOnly @@ ("p" :> NsP), <<PersonElement>>, <<>>, <<>>, <<>>, <<>>)
        EXCEPT !.ElementFormDefault = "qualified"],
     SchemaText(TRUE, EmptyStr, XsOnly, <<StringEl("t"), StringEl("t")>>, <<>>, <<>>, <<>>, <<>>),
     SchemaText(FALSE, EmptyStr, XsOnly, <<>>, <<>>, <<>>, <<>>, <<>>)}

RootSchemas ==
    {[b EXCEPT !.Includes = incs, !.Imports = imps] :
        b \in RootBodies,
        incs \in SeqsUpTo(IncludeMenu, MaxIncludes),
        imps \in SeqsUpTo(ImportMenu, MaxImports)}

\* The optional basePath argument: absent (or ""), or a directory.
BasePathArgs == {<<>>, <<EmptyPath>>, <<Path(TRUE, <<"w", "sub">>)>>, <<Rel(<<"sub", "..">>)>>}

\* --------------------------------------------------------- resolver
NoDoc == [kind |-> "none"]
NoReport == [kind |-> "none"]

\* One activation of parseXSDWithImportsAndTracker: the schema being resolved, the
\* position in its include and import loops, and what its caller holds for it
\* (cleanPath, the reference, the document loaded).
Frame(schema, basePath, key, via, ref, source) ==
    [schema |-> schema, basePath |-> basePath, incIdx |-> 1, impIdx |-> 1,
     key |-> key, via |-> via, ref |-> ref, source |-> source]

Top == stack[Len(stack)]

NoInput == [kind |-> "none"]

\* The goroutines that call Validate on one resolved schema, and a goroutine that
\* is not inside Validate.
Callers == {"a", "b"}

IdleCall ==
    [pc |-> "idle", doc |-> NoDoc, passed |-> NoDoc, ord |-> FALSE, rootKey |-> EmptyStr,
     report |-> NoReport, overlap |-> FALSE]

Init ==
    /\ calls = [c \in Callers |-> IdleCall]
    /\ input = NoInput
    /\ pc = "idle"
    /\ stack = <<>>
    /\ visited = {}
    /\ loads = <<>>
    /\ err = NoError
    /\ result = Nil
    /\ doc = NoDoc
    /\ report = NoReport

\* An error is returned by the call at the top of the stack.
Fail(e) ==
    /\ err' = e
    /\ pc' = "unwinding"

\* ParseXSD up to and including parseBasicXSD of the root document.
ParseXSD(xsdBytes, basePath) ==
    /\ pc = "idle"
    /\ LET resolvedBasePath ==
               IF Len(basePath) > 0 /\ basePath[1] # EmptyPath THEN basePath[1] ELSE Dot
       IN /\ input' = [kind |-> "ParseXSD", xsdBytes |-> xsdBytes, basePath |-> basePath]
          /\ visited' = {}
          /\ loads' = <<>>
          /\ result' = Nil
          /\ doc' = NoDoc
          /\ report' = NoReport
          /\ IF parseBasicXSDError(xsdBytes) # NoError
             THEN /\ err' = parseBasicXSDError(xsdBytes)
                  /\ pc' = "done"
                  /\ stack' = <<>>
             ELSE /\ err' = NoError
                  /\ pc' = "resolving"
                  /\ stack' = <<Frame(parseBasicXSD(xsdBytes), resolvedBasePath,
                                      EmptyPath, "root", Import(EmptyStr, NoLocation),
                                      Source(FALSE, <<>>))>>
    /\ UNCHANGED calls

\* The deferred delete forgotten.
deferDelete_leak(v, cleanPath) == v

\* defer delete(visited, cleanPath)
deferDelete(v, cleanPath) == v \ {cleanPath}

\* The partially merged schema handed back next to the error.
ErrorResult_partial(schema) == schema

\* What parseXSDWithImportsAndTracker hands back next to a non-nil error.
ErrorResult(schema) == Nil

includeWithoutLocation(include) == include.SchemaLocation = EmptyPath
\* An import without schemaLocation loaded like any other.
importWithoutLocation_never(imp) == FALSE

importWithoutLocation(imp) == imp.SchemaLocation = EmptyPath

\* The namespace of the imported schema never compared.
namespaceMismatch_unchecked(imp, importedSchema) == FALSE

namespaceMismatch(imp, importedSchema) ==
    imp.Namespace # EmptyStr /\ importedSchema.TargetNamespace # imp.Namespace

\* getNamespacePrefix ranges over a map: any of the matching prefixes, "" if none.
getNamespacePrefix(s, namespace) ==
    IF getNamespacePrefixes(s, namespace) = {} THEN {""}
    ELSE getNamespacePrefixes(s, namespace)

\* The maps of parseBasicXSD kept after merging.
rebuildLookupMaps_skipped(s) == s

\* Rebuild of the lookup maps after merging (end of parseXSDWithImportsAndTracker).
rebuildLookupMaps(s) == buildLookupMaps(s)

\* The body shared by processIncludeWithTracker and processImportWithTracker from
\* the computation of the absolute path to the recursive call.
Descend(via, ref) ==
    LET location == ref.SchemaLocation
        basePath == Top.basePath
        schemaPath == IF ~IsAbs(location) /\ basePath # EmptyPath
                      THEN Join(basePath, location)
                      ELSE location
        cleanPath == Abs(schemaPath)
        loaded == loadSchema(location, basePath)
    IN IF cleanPath \in visited
       THEN /\ Fail([kind |-> "circular"])
            /\ UNCHANGED <<stack, visited, loads>>
       ELSE /\ loads' = Append(loads, [via |-> via, ref |-> ref, key |-> cleanPath,
                                       ok |-> loaded.ok, source |-> loaded.source])
            /\ IF ~loaded.ok
               THEN /\ Fail([kind |-> "load"])
                    /\ visited' = deferDelete(visited \cup {cleanPath}, cleanPath)
                    /\ UNCHANGED stack
               ELSE IF parseBasicXSDError(loaded.bytes) # NoError
               THEN /\ Fail(parseBasicXSDError(loaded.bytes))
                    /\ visited' = deferDelete(visited \cup {cleanPath}, cleanPath)
                    /\ UNCHANGED stack
               ELSE IF Len(stack) >= MaxDepth
               THEN /\ pc' = "overflow"
                    /\ visited' = visited \cup {cleanPath}
                    /\ UNCHANGED <<stack, err>>
               ELSE /\ visited' = visited \cup {cleanPath}
                    /\ stack' = Append(stack, Frame(parseBasicXSD(loaded.bytes),
                                                    Dir(schemaPath), cleanPath, via, ref,
                                                    loaded.source))
                    /\ UNCHANGED <<pc, err>>

processIncludeWithTracker ==
    /\ pc = "resolving"
    /\ Top.incIdx <= Len(Top.schema.Includes)
    /\ LET include == Top.schema.Includes[Top.incIdx]
       IN IF includeWithoutLocation(include)
          THEN /\ Fail([kind |-> "include_without_location"])
               /\ UNCHANGED <<stack, visited, loads>>
          ELSE Descend("include", Import(EmptyStr, include.SchemaLocation))
    /\ UNCHANGED <<input, result, doc, report, calls>>

processImportWithTracker ==
    /\ pc = "resolving"
    /\ Top.incIdx > Len(Top.schema.Includes)
    /\ Top.impIdx <= Len(Top.schema.Imports)
    /\ LET imp == Top.schema.Imports[Top.impIdx]
       IN IF importWithoutLocation(imp)
          THEN /\ stack' = [stack EXCEPT ![Len(stack)].impIdx = @ + 1]
               /\ UNCHANGED <<pc, err, visited, loads>>
          ELSE Descend("import", imp)
    /\ UNCHANGED <<input, result, doc, report, calls>>

\* ------------------------------------------- strconv, strings, regexp
\* The text values of the model and what the library functions make of them.
Concat(ss) ==
    LET RECURSIVE cat(_)
        cat(k) == IF k = 0 THEN <<>> ELSE cat(k - 1) \o ss[k]
    IN cat(Len(ss))

\* strings.TrimSpace
TrimSpace(content) ==
    CASE content = " " -> ""
      [] content = " 3 " -> "3"
      [] OTHER -> content

\* An int64 is held as an offset from 0 or from 2^53 (the integers of the checker are
\* 32 bits wide): base 0 is the value val, base 53 is 2^53 + val with 0 <= val < 2^31.
\* strconv.ParseInt(s, 10, 64): [ok, base, val]
ParseInt(str) ==
    CASE str = "0" -> [ok |-> TRUE, base |-> 0, val |-> 0]
      [] str = "1" -> [ok |-> TRUE, base |-> 0, val |-> 1]
      [] str = "2" -> [ok |-> TRUE, base |-> 0, val |-> 2]
      [] str = "3" -> [ok |-> TRUE, base |-> 0, val |-> 3]
      [] str = "5" -> [ok |-> TRUE, base |-> 0, val |-> 5]
      [] str = "6" -> [ok |-> TRUE, base |-> 0, val |-> 6]
      [] str = "-1" -> [ok |-> TRUE, base |-> 0, val |-> -1]
      [] str = "200" -> [ok |-> TRUE, base |-> 0, val |-> 200]
      [] str = "12345" -> [ok |-> TRUE, base |-> 0, val |-> 12345]
      [] str = "40000" -> [ok |-> TRUE, base |-> 0, val |-> 40000]
      [] str = "9007199254740992" -> [ok |-> TRUE, base |-> 53, val |-> 0]
      [] str = "9007199254740993" -> [ok |-> TRUE, base |-> 53, val |-> 1]
      [] str = "9007199254740994" -> [ok |-> TRUE, base |-> 53, val |-> 2]
      [] str = "9007199254740995" -> [ok |-> TRUE, base |-> 53, val |-> 3]
      [] OTHER -> [ok |-> FALSE, base |-> 0, val |-> 0]

\* A float64, in tenths, as an offset from 0 or from 2^53.
Float(base, tenths) == [base |-> base, tenths |-> tenths]

\* float64(int64): exact below 2^53; from 2^53 to 2^54 the floats are the even
\* integers and the conversion rounds to the nearest, ties to the even mantissa.
Float64(int) ==
    IF int.base = 0 THEN Float(0, 10 * int.val)
    ELSE Float(53, 10 * (CASE int.val % 2 = 0 -> int.val
                           [] int.val % 4 = 1 -> int.val - 1
                           [] OTHER -> int.val + 1))

FloatLess(a, b) == a.base < b.base \/ (a.base = b.base /\ a.tenths < b.tenths)

\* strconv.Atoi (the occurrence and length values of the schemas are below 2^31)
Atoi(str) == ParseInt(str)

\* strconv.ParseFloat(s, 64): [ok, val], val the nearest float64
ParseFloat(str) ==
    IF ParseInt(str).ok THEN [ok |-> TRUE, val |-> Float64(ParseInt(str))]
    ELSE CASE str = "2.5" -> [ok |-> TRUE, val |-> Float(0, 25)]
           [] str = "5.5" -> [ok |-> TRUE, val |-> Float(0, 55)]
           [] OTHER -> [ok |-> FALSE, val |-> Float(0, 0)]

\* regexp.MatchString(pattern, content): [ok, matched]
MatchString(pattern, content) ==
    CASE pattern = "[0-9]{5}" ->
            [ok |-> TRUE, matched |-> content \in {"12345", "40000", "1234567"}]
      [] pattern = "[a-z]+" ->
            [ok |-> TRUE, matched |-> content \in {"abc", "abcdefg", "active", "inactive", "true"}]
      [] pattern = "[" -> [ok |-> FALSE, matched |-> FALSE]
      [] OTHER -> [ok |-> TRUE, matched |-> content = pattern]

HasXsPrefix(type) == Len(type) > 1 /\ type[1] = "xs"

\* -------------------------------------------------- facet validators
validatePattern(content, pattern) ==
    IF ~MatchString(pattern, content).ok
    THEN <<[msg |-> "invalid pattern in schema", pattern |-> pattern]>>
    ELSE IF ~MatchString(pattern, content).matched
    THEN <<[msg |-> "does not match pattern", value |-> content, pattern |-> pattern]>>
    ELSE <<>>

validateEnumeration(content, enumerations) ==
    IF \E i \in 1..Len(enumerations) : content = enumerations[i].Value
    THEN <<>>
    ELSE <<[msg |-> "is not in the list of allowed values", value |-> content]>>

validateLengthConstraints(content, restriction) ==
    (IF restriction.MinLength # Nil /\ restriction.MinLength.Value # ""
     THEN IF ~Atoi(restriction.MinLength.Value).ok
          THEN <<[msg |-> "invalid minLength value in schema",
                  limit |-> restriction.MinLength.Value]>>
          ELSE IF Len(content) < Atoi(restriction.MinLength.Value).val
          THEN <<[msg |-> "is too short", value |-> content,
                  limit |-> restriction.MinLength.Value]>>
          ELSE <<>>
     ELSE <<>>)
    \o
    (IF restriction.MaxLength # Nil /\ restriction.MaxLength.Value # ""
     THEN IF ~Atoi(restriction.MaxLength.Value).ok
          THEN <<[msg |-> "invalid maxLength value in schema",
                  limit |-> restriction.MaxLength.Value]>>
          ELSE IF Len(content) > Atoi(restriction.MaxLength.Value).val
          THEN <<[msg |-> "is too long", value |-> content,
                  limit |-> restriction.MaxLength.Value]>>
          ELSE <<>>
     ELSE <<>>)

IntegerBases == {<<"xs", "integer">>, <<"xs", "int">>, <<"xs", "long">>,
                 <<"xs", "short">>, <<"xs", "byte">>}
DecimalBases == {<<"xs", "decimal">>, <<"xs", "double">>, <<"xs", "float">>}

\* parseNumericValues: [err, skip, contentNum, limitNum]; skip is the (0, 0, nil) return
\* of the default branch for non-numeric content.
parseNumericValues(content0, limitValue, baseType) ==
    LET content == TrimSpace(content0)
        none == <<>>
    IN IF baseType \in IntegerBases
       THEN IF ~ParseInt(content).ok
            THEN [err |-> <<[msg |-> "is not a valid integer", value |-> content]>>,
                  contentNum |-> Float(0, 0), limitNum |-> Float(0, 0)]
            ELSE IF ~ParseInt(limitValue).ok
            THEN [err |-> <<[msg |-> "invalid limit value in schema", limit |-> limitValue]>>,
                  contentNum |-> Float(0, 0), limitNum |-> Float(0, 0)]
            ELSE [err |-> none, contentNum |-> Float64(ParseInt(content)),
                  limitNum |-> Float64(ParseInt(limitValue))]
       ELSE IF baseType \in DecimalBases
       THEN IF ~ParseFloat(content).ok
            THEN [err |-> <<[msg |-> "is not a valid decimal number", value |-> content]>>,
                  contentNum |-> Float(0, 0), limitNum |-> Float(0, 0)]
            ELSE IF ~ParseFloat(limitValue).ok
            THEN [err |-> <<[msg |-> "invalid limit value in schema", limit |-> limitValue]>>,
                  contentNum |-> Float(0, 0), limitNum |-> Float(0, 0)]
            ELSE [err |-> none, contentNum |-> ParseFloat(content).val,
                  limitNum |-> ParseFloat(limitValue).val]
       ELSE IF ~ParseFloat(content).ok
            THEN [err |-> none, contentNum |-> Float(0, 0), limitNum |-> Float(0, 0)]
            ELSE IF ~ParseFloat(limitValue).ok
            THEN [err |-> <<[msg |-> "invalid limit value in schema", limit |-> limitValue]>>,
                  contentNum |-> Float(0, 0), limitNum |-> Float(0, 0)]
            ELSE [err |-> none, contentNum |-> ParseFloat(content).val,
                  limitNum |-> ParseFloat(limitValue).val]

validateNumericRange(content, limitValue, isMin, inclusive, baseType) ==
    LET parsed == parseNumericValues(content, limitValue, baseType)
        contentNum == parsed.contentNum
        limitNum == parsed.limitNum
        violatesRange ==
            IF isMin
            THEN \/ (inclusive /\ FloatLess(contentNum, limitNum))
                 \/ (~inclusive /\ ~FloatLess(limitNum, contentNum))
            ELSE \/ (inclusive /\ FloatLess(limitNum, contentNum))
                 \/ (~inclusive /\ ~FloatLess(contentNum, limitNum))
    IN IF parsed.err # <<>> THEN parsed.err
       ELSE IF violatesRange
       THEN <<[msg |-> IF isMin THEN "below minimum" ELSE "exceeds maximum",
               value |-> content, limit |-> limitValue]>>
       ELSE <<>>

validateNumericConstraints(content, restriction) ==
    (IF restriction.MinInclusive # Nil /\ restriction.MinInclusive.Value # ""
     THEN validateNumericRange(content, restriction.MinInclusive.Value, TRUE, TRUE,
                               restriction.Base)
     ELSE <<>>)
    \o
    (IF restriction.MaxInclusive # Nil /\ restriction.MaxInclusive.Value # ""
     THEN validateNumericRange(content, restriction.MaxInclusive.Value, FALSE, TRUE,
                               restriction.Base)
     ELSE <<>>)

\* The checks given up at the first facet that fails.
validateSimpleTypeConstraints_firstFailure(content, simpleType) ==
    IF simpleType = Nil \/ simpleType.Restriction = Nil THEN <<>>
    ELSE LET restriction == simpleType.Restriction
             all == (IF restriction.Pattern # Nil /\ restriction.Pattern.Value # ""
                     THEN validatePattern(content, restriction.Pattern.Value)
                     ELSE <<>>)
                    \o (IF Len(restriction.Enumeration) > 0
                        THEN validateEnumeration(content, restriction.Enumeration)
                        ELSE <<>>)
                    \o validateLengthConstraints(content, restriction)
                    \o validateNumericConstraints(content, restriction)
         IN IF all = <<>> THEN <<>> ELSE <<all[1]>>

validateSimpleTypeConstraints(content, simpleType) ==
    IF simpleType = Nil \/ simpleType.Restriction = Nil THEN <<>>
    ELSE LET restriction == simpleType.Restriction
         IN (IF restriction.Pattern # Nil /\ restriction.Pattern.Value # ""
             THEN validatePattern(content, restriction.Pattern.Value)
             ELSE <<>>)
            \o (IF Len(restriction.Enumeration) > 0
                THEN validateEnumeration(content, restriction.Enumeration)
                ELSE <<>>)
            \o validateLengthConstraints(content, restriction)
            \o validateNumericConstraints(content, restriction)

\* validateBuiltInType, for the built-in type names that a schema of the model uses.
validateBuiltInType(content0, typeName) ==
    LET content == TrimSpace(content0)
        int == ParseInt(content)
        bad(what) == <<[msg |-> "is not a valid built-in value", value |-> content,
                        type |-> what]>>
    IN CASE typeName \in {<<"xs", "integer">>, <<"xs", "long">>} ->
                IF int.ok THEN <<>> ELSE bad(typeName[2])
         [] typeName = <<"xs", "byte">> ->
                IF int.ok /\ int.base = 0 /\ int.val <= 127 /\ int.val >= -128 THEN <<>> ELSE bad("byte")
         [] typeName = <<"xs", "short">> ->
                IF int.ok /\ int.base = 0 /\ int.val <= 32767 /\ int.val >= -32768 THEN <<>> ELSE bad("short")
         [] typeName = <<"xs", "int">> ->
                IF int.ok /\ int.base = 0 THEN <<>> ELSE bad("int")
         [] typeName = <<"xs", "nonNegativeInteger">> ->
                IF ~int.ok THEN bad("nonNegativeInteger")
                ELSE IF int.val < 0
                THEN <<[msg |-> "must be non-negative", value |-> content]>>
                ELSE <<>>
         [] typeName = <<"xs", "positiveInteger">> ->
                IF ~int.ok THEN bad("positiveInteger")
                ELSE IF int.val <= 0
                THEN <<[msg |-> "must be positive", value |-> content]>>
                ELSE <<>>
         [] typeName \in DecimalBases ->
                IF ParseFloat(content).ok THEN <<>> ELSE bad(typeName[2])
         [] typeName = <<"xs", "boolean">> ->
                IF content \in {"true", "false", "1", "0"} THEN <<>> ELSE bad("boolean")
         [] OTHER -> <<>>

\* -------------------------------------------------- qualified names
XmlName(space, local) == [Space |-> space, Local |-> local]

Contains(name) == Len(name) > 1

ParseQName(qname) ==
    IF Contains(qname)
    THEN [Prefix |-> qname[1], LocalName |-> Tail(qname), Namespace |-> EmptyStr]
    ELSE [Prefix |-> "", LocalName |-> qname, Namespace |-> EmptyStr]

ResolveQName(s, qname) ==
    LET parsed == ParseQName(qname)
    IN IF parsed.Prefix \in DOMAIN s.Xmlns
       THEN [parsed EXCEPT !.Namespace = s.Xmlns[parsed.Prefix]]
       ELSE parsed

IsQualified(s, elementName) == s.ElementFormDefault = "qualified"

GetElementKey(s, name) ==
    IF IsQualified(s, name.Local) /\ name.Space # EmptyStr
    THEN IF name.Space = s.TargetNamespace THEN Str(name.Local)
         ELSE name.Space \o Str(name.Local)
    ELSE Str(name.Local)

elementsMatch(s, childName, schemaElementName) ==
    IF ~Contains(schemaElementName)
    THEN Str(childName.Local) = schemaElementName
    ELSE LET resolved == ResolveQName(s, schemaElementName)
         IN /\ Str(childName.Local) = resolved.LocalName
            /\ \/ childName.Space = resolved.Namespace
               \/ (childName.Space = s.TargetNamespace
                   /\ resolved.Namespace = s.TargetNamespace)

\* ------------------------------------------------- validation engine
XmlNode(name, attrs, children, content) ==
    [Name |-> name, Attrs |-> attrs, Children |-> children, Content |-> content]

XmlAttr(name, value) == [Name |-> name, Value |-> value]

\* Order in which a Go map with the key set S is ranged over: one order or its reverse.
MapOrder(S, ord) ==
    LET seq == CHOOSE q \in [1..Cardinality(S) -> S] : Range(q) = S
    IN IF ord THEN [i \in 1..Len(seq) |-> seq[Len(seq) + 1 - i]] ELSE seq

getComplexType(s, def) ==
    IF def.ComplexType # Nil THEN def.ComplexType
    ELSE IF def.Type \in DOMAIN s.ComplexTypeMap
    THEN s.ComplexTypes[s.ComplexTypeMap[def.Type]]
    ELSE Nil

\* findSimpleType: [err, simpleType]
findSimpleType(s, def) ==
    IF def.SimpleType # Nil THEN [err |-> <<>>, simpleType |-> def.SimpleType]
    ELSE IF def.Type # EmptyStr
    THEN IF def.Type \in DOMAIN s.SimpleTypeMap
         THEN [err |-> <<>>, simpleType |-> s.SimpleTypes[s.SimpleTypeMap[def.Type]]]
         ELSE IF HasXsPrefix(def.Type)
         THEN [err |-> <<>>, simpleType |-> Nil]
         ELSE [err |-> <<[msg |-> "type definition not found in schema", type |-> def.Type]>>,
               simpleType |-> Nil]
    ELSE [err |-> <<>>, simpleType |-> Nil]

InElement(def, errors) ==
    [i \in 1..Len(errors) |-> [msg |-> "in element", element |-> def.Name, cause |-> errors[i]]]

validateTextContent(s, node, def) ==
    LET content == TrimSpace(node.Content)
        found == findSimpleType(s, def)
    IN (IF def.Type # EmptyStr /\ HasXsPrefix(def.Type)
        THEN InElement(def, validateBuiltInType(content, def.Type))
        ELSE <<>>)
       \o (IF found.err # <<>> THEN InElement(def, found.err)
           ELSE IF found.simpleType # Nil
           THEN InElement(def, validateSimpleTypeConstraints(content, found.simpleType))
           ELSE <<>>)

\* countChildren, read at one key
countChildren(node, key) ==
    Cardinality({i \in 1..Len(node.Children) : Str(node.Children[i].Name.Local) = key})

ChildLocals(node) == {node.Children[i].Name.Local : i \in 1..Len(node.Children)}

FirstMatch(s, childName, elements) ==
    IF \E i \in 1..Len(elements) : elementsMatch(s, childName, elements[i].Name)
    THEN elements[CHOOSE i \in 1..Len(elements) :
                     /\ elementsMatch(s, childName, elements[i].Name)
                     /\ \A j \in 1..(i - 1) : ~elementsMatch(s, childName, elements[j].Name)]
    ELSE Nil

findChildElement(s, childName, sequence) == FirstMatch(s, childName, sequence.Elements)

findAllElement(s, childName, all) == FirstMatch(s, childName, all.Elements)

RECURSIVE findChoiceElement(_, _, _)
findChoiceElement(s, childName, choice) ==
    LET inSequences ==
            Concat([i \in 1..Len(choice.Sequences) |-> choice.Sequences[i].Elements])
        nested == [i \in 1..Len(choice.Choices) |->
                      findChoiceElement(s, childName, choice.Choices[i])]
    IN IF FirstMatch(s, childName, choice.Elements) # Nil
       THEN FirstMatch(s, childName, choice.Elements)
       ELSE IF FirstMatch(s, childName, inSequences) # Nil
       THEN FirstMatch(s, childName, inSequences)
       ELSE IF \E i \in 1..Len(nested) : nested[i] # Nil
       THEN nested[CHOOSE i \in 1..Len(nested) :
                      nested[i] # Nil /\ \A j \in 1..(i - 1) : nested[j] = Nil]
       ELSE Nil

validateSequenceOccurrences(node, sequence) ==
    Concat([i \in 1..Len(sequence.Elements) |->
        LET element == sequence.Elements[i]
            count == countChildren(node, element.Name)
        IN (IF element.MinOccurs # "" /\ count < Atoi(element.MinOccurs).val
            THEN <<[msg |-> "requires at least", parent |-> node.Name.Local,
                    min |-> Atoi(element.MinOccurs).val, child |-> element.Name,
                    found |-> count]>>
            ELSE <<>>)
           \o (IF element.MaxOccurs # "" /\ element.MaxOccurs # "unbounded"
               THEN IF ~Atoi(element.MaxOccurs).ok
                    THEN <<[msg |-> "invalid maxOccurs value in schema",
                            child |-> element.Name, value |-> element.MaxOccurs]>>
                    ELSE IF count > Atoi(element.MaxOccurs).val
                    THEN <<[msg |-> "allows at most", parent |-> node.Name.Local,
                            max |-> Atoi(element.MaxOccurs).val, child |-> element.Name,
                            found |-> count]>>
                    ELSE <<>>
               ELSE <<>>)])

\* Only the default declaration xmlns="..." recognised.
isNamespaceDeclaration_defaultOnly(attr) == attr.Name.Local = "xmlns"

isNamespaceDeclaration(attr) == attr.Name.Space = Str("xmlns") \/ attr.Name.Local = "xmlns"

InAttribute(attrDef, node, errors) ==
    [i \in 1..Len(errors) |->
        [msg |-> "attribute", attribute |-> attrDef.Name, element |-> node.Name.Local,
         cause |-> errors[i]]]

validateAttributes(s, node, attributeDefs) ==
    LET present(name) == \E i \in 1..Len(node.Attrs) : Str(node.Attrs[i].Name.Local) = name
        \* attrValues[name]: the last attribute of that local name wins
        value(name) ==
            node.Attrs[CHOOSE i \in 1..Len(node.Attrs) :
                          /\ Str(node.Attrs[i].Name.Local) = name
                          /\ \A j \in (i + 1)..Len(node.Attrs) :
                                Str(node.Attrs[j].Name.Local) # name].Value
        declared ==
            Concat([i \in 1..Len(attributeDefs) |->
                LET attrDef == attributeDefs[i]
                IN IF attrDef.Use = "required" /\ ~present(attrDef.Name)
                   THEN <<[msg |-> "required attribute is missing",
                           decl |-> attrDef.Name, element |-> node.Name.Local]>>
                   ELSE IF ~present(attrDef.Name) THEN <<>>
                   ELSE (IF attrDef.Fixed # "" /\ value(attrDef.Name) # attrDef.Fixed
                         THEN <<[msg |-> "has fixed value", attribute |-> attrDef.Name,
                                 element |-> node.Name.Local, fixed |-> attrDef.Fixed,
                                 got |-> value(attrDef.Name)]>>
                         ELSE <<>>)
                        \o (IF attrDef.Type # EmptyStr /\ HasXsPrefix(attrDef.Type)
                            THEN InAttribute(attrDef, node,
                                     validateBuiltInType(value(attrDef.Name), attrDef.Type))
                            ELSE <<>>)
                        \o (IF attrDef.SimpleType # Nil
                            THEN InAttribute(attrDef, node,
                                     validateSimpleTypeConstraints(value(attrDef.Name),
                                                                   attrDef.SimpleType))
                            ELSE <<>>)])
        undeclared ==
            Concat([i \in 1..Len(node.Attrs) |->
                LET attr == node.Attrs[i]
                IN IF isNamespaceDeclaration(attr) THEN <<>>
                   ELSE IF \E k \in 1..Len(attributeDefs) :
                               attributeDefs[k].Name = Str(attr.Name.Local)
                   THEN <<>>
                   ELSE <<[msg |-> "unexpected attribute", attribute |-> attr.Name.Local,
                           element |-> node.Name.Local]>>])
    IN declared \o undeclared

\* The map of counts overwritten at each matched child instead of added to.
validateChoiceNames_lastOnly(s, node, choice) ==
    LET matched == {k \in 1..Len(node.Children) :
                       findChoiceElement(s, node.Children[k].Name, choice) # Nil}
    IN {node.Children[k].Name.Local : k \in {i \in matched : \A j \in matched : j <= i}}

validateChoiceNames(s, node, choice) ==
    {node.Children[i].Name.Local :
        i \in {k \in 1..Len(node.Children) :
                  findChoiceElement(s, node.Children[k].Name, choice) # Nil}}

RECURSIVE validateNode(_, _, _, _)

\* Traversal of a sequence given up at the first violation.
validateSequence_stopAtFirst(s, ord, node, sequence) ==
    LET all == Concat([i \in 1..Len(node.Children) |->
                   LET child == node.Children[i]
                       childDef == findChildElement(s, child.Name, sequence)
                   IN IF childDef # Nil THEN validateNode(s, ord, child, childDef)
                      ELSE <<[msg |-> "is not a valid child of", child |-> child.Name.Local,
                              parent |-> node.Name.Local]>>])
               \o validateSequenceOccurrences(node, sequence)
    IN IF all = <<>> THEN <<>> ELSE <<all[1]>>

\* A sequence that also enforces the declared order: a child whose declaration
\* stands before that of an earlier sibling is rejected.
validateSequence_inOrder(s, ord, node, sequence) ==
    LET position(i) == CHOOSE k \in 1..Len(sequence.Elements) :
                          sequence.Elements[k] = findChildElement(s, node.Children[i].Name, sequence)
        declared(i) == findChildElement(s, node.Children[i].Name, sequence) # Nil
    IN Concat([i \in 1..Len(node.Children) |->
           LET child == node.Children[i]
               childDef == findChildElement(s, child.Name, sequence)
           IN IF childDef # Nil
                 /\ \A j \in 1..(i - 1) : declared(j) => position(j) <= position(i)
              THEN validateNode(s, ord, child, childDef)
              ELSE <<[msg |-> "is not a valid child of", child |-> child.Name.Local,
                      parent |-> node.Name.Local]>>])
       \o validateSequenceOccurrences(node, sequence)

validateSequence(s, ord, node, sequence) ==
    Concat([i \in 1..Len(node.Children) |->
        LET child == node.Children[i]
            childDef == findChildElement(s, child.Name, sequence)
        IN IF childDef # Nil THEN validateNode(s, ord, child, childDef)
           ELSE <<[msg |-> "is not a valid child of", child |-> child.Name.Local,
                   parent |-> node.Name.Local]>>])
    \o validateSequenceOccurrences(node, sequence)

validateChoice(s, ord, node, choice) ==
    IF Len(node.Children) = 0
    THEN IF choice.MinOccurs = "" \/ choice.MinOccurs # "0"
         THEN <<[msg |-> "must contain at least one choice element",
                 element |-> node.Name.Local]>>
         ELSE <<>>
    ELSE LET maxOccurs ==
                 IF choice.MaxOccurs # ""
                 THEN IF choice.MaxOccurs = "unbounded" THEN -1
                      ELSE IF Atoi(choice.MaxOccurs).ok THEN Atoi(choice.MaxOccurs).val
                      ELSE 1
                 ELSE 1
             choiceElementCounts == validateChoiceNames(s, node, choice)
         IN Concat([i \in 1..Len(node.Children) |->
                LET child == node.Children[i]
                    childDef == findChoiceElement(s, child.Name, choice)
                IN IF childDef # Nil THEN validateNode(s, ord, child, childDef)
                   ELSE <<[msg |-> "is not a valid choice for", child |-> child.Name.Local,
                           parent |-> node.Name.Local]>>])
            \o (IF maxOccurs = 1 /\ Cardinality(choiceElementCounts) > 1
                THEN <<[msg |-> "choice allows only one alternative",
                        element |-> node.Name.Local,
                        found |-> MapOrder(choiceElementCounts, ord)]>>
                ELSE <<>>)

\* The count of a name checked against the maxOccurs of its declaration.
validateAll_honoursMaxOccurs(s, ord, node, all) ==
    LET names == MapOrder(ChildLocals(node), ord)
        unbounded(name) == \E i \in 1..Len(all.Elements) :
                               /\ all.Elements[i].Name = Str(name)
                               /\ all.Elements[i].MaxOccurs = "unbounded"
    IN Concat([k \in 1..Len(names) |->
           IF countChildren(node, Str(names[k])) > 1 /\ ~unbounded(names[k])
           THEN <<[msg |-> "appears too often in xs:all group", child |-> names[k],
                   times |-> countChildren(node, Str(names[k])), max |-> 1]>>
           ELSE <<>>])
       \o Concat([i \in 1..Len(node.Children) |->
              LET child == node.Children[i]
                  childDef == findAllElement(s, child.Name, all)
              IN IF childDef # Nil THEN validateNode(s, ord, child, childDef)
                 ELSE <<[msg |-> "is not allowed in xs:all group", child |-> child.Name.Local,
                         parent |-> node.Name.Local]>>])
       \o Concat([i \in 1..Len(all.Elements) |->
              LET element == all.Elements[i]
              IN IF (element.MinOccurs = "" \/ element.MinOccurs # "0")
                    /\ countChildren(node, element.Name) = 0
                 THEN <<[msg |-> "required element is missing from xs:all group",
                         decl |-> element.Name, parent |-> node.Name.Local]>>
                 ELSE <<>>])

validateAll(s, ord, node, all) ==
    LET names == MapOrder(ChildLocals(node), ord)
    IN Concat([k \in 1..Len(names) |->
           IF countChildren(node, Str(names[k])) > 1
           THEN <<[msg |-> "appears too often in xs:all group", child |-> names[k],
                   times |-> countChildren(node, Str(names[k])), max |-> 1]>>
           ELSE <<>>])
       \o Concat([i \in 1..Len(node.Children) |->
              LET child == node.Children[i]
                  childDef == findAllElement(s, child.Name, all)
              IN IF childDef # Nil THEN validateNode(s, ord, child, childDef)
                 ELSE <<[msg |-> "is not allowed in xs:all group", child |-> child.Name.Local,
                         parent |-> node.Name.Local]>>])
       \o Concat([i \in 1..Len(all.Elements) |->
              LET element == all.Elements[i]
              IN IF (element.MinOccurs = "" \/ element.MinOccurs # "0")
                    /\ countChildren(node, element.Name) = 0
                 THEN <<[msg |-> "required element is missing from xs:all group",
                         decl |-> element.Name, parent |-> node.Name.Local]>>
                 ELSE <<>>])

validateComplexType(s, ord, node, complexType) ==
    validateAttributes(s, node, complexType.Attributes)
    \o (IF complexType.Sequence # Nil THEN validateSequence(s, ord, node, complexType.Sequence)
        ELSE IF complexType.Choice # Nil THEN validateChoice(s, ord, node, complexType.Choice)
        ELSE IF complexType.All # Nil THEN validateAll(s, ord, node, complexType.All)
        ELSE <<>>)

validateNode(s, ord, node, def) ==
    (IF Len(node.Children) = 0 /\ TrimSpace(node.Content) # ""
     THEN validateTextContent(s, node, def)
     ELSE <<>>)
    \o (IF getComplexType(s, def) # Nil
        THEN validateComplexType(s, ord, node, getComplexType(s, def))
        ELSE IF Len(node.Children) > 0
        THEN <<[msg |-> "should be empty but has children", element |-> node.Name.Local]>>
        ELSE <<>>)

\* Validate: the report is Valid (nil) or the list of a ValidationError.
Valid == [kind |-> "valid"]
ValidationError(errors) == [kind |-> "ValidationError", Errors |-> errors]

\* Only the first error reported.
AggregateResult_firstOnly(errors) ==
    IF Len(errors) > 0 THEN ValidationError(<<errors[1]>>) ELSE Valid

\* The end of Validate: the aggregate of all errors, or nil.
AggregateResult(errors) == IF Len(errors) > 0 THEN ValidationError(errors) ELSE Valid

NilDocument == [kind |-> "nil"]
Document(rootNode) == [kind |-> "document", Root |-> rootNode]

ValidateResult(s, ord, d) ==
    IF d = NilDocument \/ d.Root = Nil
    THEN ValidationError(<<[msg |-> "XML document is empty"]>>)
    ELSE LET elementKey == GetElementKey(s, d.Root.Name)
             undefined == ValidationError(<<[msg |-> "root element is not defined in the schema",
                                             element |-> d.Root.Name.Local]>>)
             rootKey == IF elementKey \in DOMAIN s.ElementMap THEN elementKey
                        ELSE Str(d.Root.Name.Local)
         IN IF rootKey \notin DOMAIN s.ElementMap THEN undefined
            ELSE LET errors == validateNode(s, ord, d.Root, s.Elements[s.ElementMap[rootKey]])
                 IN AggregateResult(errors)

\* The end of parseXSDWithImportsAndTracker for the call at the top of the stack
\* (rebuild of the lookup maps), followed by what its caller does with the schema:
\* ParseXSD returns it, processIncludeWithTracker and processImportWithTracker merge it.
parseXSDWithImportsAndTracker ==
    /\ pc = "resolving"
    /\ Top.incIdx > Len(Top.schema.Includes)
    /\ Top.impIdx > Len(Top.schema.Imports)
    /\ LET schema == rebuildLookupMaps(Top.schema)
           caller == Len(stack) - 1
       IN IF buildLookupMapsError(Top.schema) # NoError
          THEN /\ Fail(buildLookupMapsError(Top.schema))
               /\ UNCHANGED <<stack, visited, result>>
          ELSE IF Top.via = "root"
          THEN /\ result' = schema
               /\ pc' = "done"
               /\ stack' = <<>>
               /\ UNCHANGED <<err, visited>>
          ELSE IF Top.via = "include"
          THEN /\ stack' = [Front(stack) EXCEPT
                               ![caller].schema = mergeVerbatim(@, schema),
                               ![caller].incIdx = @ + 1]
               /\ visited' = deferDelete(visited, Top.key)
               /\ UNCHANGED <<pc, err, result>>
          ELSE IF namespaceMismatch(Top.ref, schema)
          THEN /\ Fail([kind |-> "namespace_mismatch"])
               /\ stack' = Front(stack)
               /\ visited' = deferDelete(visited, Top.key)
               /\ UNCHANGED result
          ELSE /\ \E prefix \in getNamespacePrefix(stack[caller].schema, Top.ref.Namespace) :
                    stack' = [Front(stack) EXCEPT
                                 ![caller].schema =
                                     IF prefix # ""
                                     THEN mergeImportedSchemaWithPrefix(@, schema, prefix)
                                     ELSE mergeVerbatim(@, schema),
                                 ![caller].impIdx = @ + 1]
               /\ visited' = deferDelete(visited, Top.key)
               /\ UNCHANGED <<pc, err, result>>
    /\ UNCHANGED <<input, loads, doc, report, calls>>

\* An error leaves the call at the top of the stack: its caller runs its deferred
\* delete and returns the error in turn; ParseXSD returns it with no schema.
PropagateError ==
    /\ pc = "unwinding"
    /\ stack' = Front(stack)
    /\ IF Top.via = "root"
       THEN /\ pc' = "done"
            /\ result' = ErrorResult(Top.schema)
            /\ UNCHANGED visited
       ELSE /\ visited' = deferDelete(visited, Top.key)
            /\ UNCHANGED <<pc, result>>
    /\ UNCHANGED <<input, err, loads, doc, report, calls>>

\* ------------------------------------------------ inputs of Validate
Leaf(space, local, content) == XmlNode(XmlName(space, local), <<>>, <<>>, content)

AddressNodes ==
    {XmlNode(XmlName(EmptyStr, "address"), <<>>, children, "") :
        children \in {<<>>,
                      <<Leaf(EmptyStr, "street", "Main"), Leaf(EmptyStr, "zipcode", "12345")>>,
                      <<Leaf(EmptyStr, "street", "Main"), Leaf(EmptyStr, "zipcode", "1234567")>>,
                      <<Leaf(EmptyStr, "zipcode", "abc"), Leaf(EmptyStr, "bogus", "")>>}}

PersonChildren ==
    {Leaf(EmptyStr, "name", "Al"), Leaf(EmptyStr, "bogus", "")} \cup AddressNodes

PersonNodes ==
    {XmlNode(XmlName(EmptyStr, "person"), <<>>, children, "") :
        children \in SeqsUpTo(PersonChildren, MaxChildren)}
    \cup {XmlNode(XmlName(space, "person"), <<>>, <<>>, "") : space \in {NsP, NsOther}}

ContactNodes ==
    {XmlNode(XmlName(EmptyStr, "contact"), <<>>, children, "") :
        children \in SeqsUpTo({Leaf(EmptyStr, "email", "a@b"), Leaf(EmptyStr, "phone", "abc"),
                               Leaf(EmptyStr, "phone", "5")}, MaxChildren)}

ContactsNodes ==
    {XmlNode(XmlName(EmptyStr, local), <<>>, children, "") :
        local \in {"contacts", "contactpair"},
        children \in SeqsUpTo({Leaf(EmptyStr, "email", "a@b"), Leaf(EmptyStr, "phone", "5"),
                               Leaf(EmptyStr, "bogus", "")}, MaxChildren)}

OrderNodes ==
    {XmlNode(XmlName(EmptyStr, "order"), <<>>, children, "") :
        children \in SeqsUpTo({Leaf(EmptyStr, "item", "i"), Leaf(EmptyStr, "note", "n"),
                               Leaf(NsAddr, "street", "Main"), Leaf(EmptyStr, "bogus", "")},
                              MaxChildren)}

BatchNodes ==
    {XmlNode(XmlName(EmptyStr, "batch"), <<>>, children, "") :
        children \in SeqsUpTo({Leaf(EmptyStr, "entry", "e"), Leaf(EmptyStr, "size", "3")},
                              MaxChildren)}

MarkerNodes ==
    {XmlNode(XmlName(EmptyStr, "marker"), <<>>, children, "") :
        children \in {<<>>, <<Leaf(EmptyStr, "bogus", "")>>}}

ConfigAttrs ==
    {<<>>,
     <<XmlAttr(XmlName(EmptyStr, "mode"), "fast")>>,
     <<XmlAttr(XmlName(EmptyStr, "mode"), "fast"), XmlAttr(XmlName(EmptyStr, "version"), "2")>>,
     <<XmlAttr(XmlName(Str("xmlns"), "x"), "urn:x"), XmlAttr(XmlName(EmptyStr, "extra"), "1")>>,
     <<XmlAttr(XmlName(Str("xmlns"), "mode"), "urn:x")>>}

ConfigNodes ==
    {XmlNode(XmlName(EmptyStr, "config"), attrs, children, "") :
        attrs \in ConfigAttrs,
        children \in SeqsUpTo({Leaf(EmptyStr, "host", "h"), Leaf(EmptyStr, "port", "x")},
                              MaxChildren)}

Documents ==
    {NilDocument, Document(Nil), Document(Leaf(EmptyStr, "customer", ""))}
    \cup {Document(n) : n \in PersonNodes \cup ContactNodes \cup ConfigNodes \cup ContactsNodes
                             \cup OrderNodes \cup BatchNodes \cup MarkerNodes}

\* Schema.Validate on the schema that ParseXSD returned.  Validate reads only its
\* arguments, so one call per resolved schema is explored.
Validate(d, ord) ==
    /\ pc = "done"
    /\ result # Nil
    /\ report = NoReport
    /\ doc' = d
    /\ report' = ValidateResult(result, ord, d)
    /\ UNCHANGED <<input, pc, stack, visited, loads, err, result, calls>>

\* ------------------------------------ facet validation on its own
\* validateSimpleTypeConstraints is a pure function of a leaf value and a simple
\* type: it is applied to every value and restriction below.
FacetContents ==
    {"", "a", "abc", "abcdefg", "active", "12345", "0", "1", "3", "5", "6", "-1", " 3 ",
     "9007199254740992", "9007199254740993"}

OptionalFacet(values) == {Nil} \cup {Facet(v) : v \in values}

FacetTypes ==
    {Nil, SimpleType(Str("empty"), Nil)}
    \cup {SimpleType(Str("t"),
                     Restriction(base, minLength, maxLength, pattern, minInclusive,
                                 maxInclusive, enumeration)) :
             base \in {<<"xs", "string">>, <<"xs", "integer">>, <<"xs", "long">>},
             minLength \in OptionalFacet({"2"}),
             maxLength \in OptionalFacet({"5"}),
             pattern \in OptionalFacet({"[0-9]{5}"}),
             minInclusive \in OptionalFacet({"1"}),
             maxInclusive \in OptionalFacet({"5", "9007199254740992", "high"}),
             enumeration \in {<<>>, <<Facet("active"), Facet("3")>>}}

FacetInit ==
    /\ input \in {[kind |-> "validateSimpleTypeConstraints", content |-> content,
                    simpleType |-> simpleType] :
                      content \in FacetContents, simpleType \in FacetTypes}
    /\ pc = "called"
    /\ calls = [c \in Callers |-> IdleCall]
    /\ stack = <<>>
    /\ visited = {}
    /\ loads = <<>>
    /\ err = NoError
    /\ result = Nil
    /\ doc = NoDoc
    /\ report = NoReport

ApplyFacets ==
    /\ pc = "called"
    /\ pc' = "returned"
    /\ report' = [kind |-> "errors",
                  Errors |-> validateSimpleTypeConstraints(input.content, input.simpleType)]
    /\ UNCHANGED <<input, stack, visited, loads, err, result, doc, calls>>

FacetNext == ApplyFacets

FacetSpec == FacetInit /\ [][FacetNext]_vars

\* ------------------------------------ concurrent calls of Validate
\* Several goroutines call Validate on the schema that ParseXSD returned, each with
\* a document of its own.  A call takes three steps, which interleave freely with
\* the steps of the other calls: entry, the lookup of the root declaration, and
\* validateNode on the root with the aggregation of its result.  The schema
\* (result) and the document trees are the memory the goroutines share.
ConcurrentDocuments ==
    {d \in Documents : d = NilDocument \/ d.Root = Nil \/ Len(d.Root.Children) <= 1}

InFlight(c) == calls[c].pc \in {"entered", "validating"}

Overlapping(c) == \E other \in Callers \ {c} : InFlight(other)

\* The root declaration taken out of the element index by the call that used it.
SchemaAfterValidate_consumesRoot(s, rootKey) ==
    [s EXCEPT !.ElementMap = [k \in DOMAIN s.ElementMap \ {rootKey} |-> s.ElementMap[k]]]

\* What a step of Validate leaves in the schema: neither Validate nor a function it
\* calls assigns to s or to one of its fields.
SchemaAfterValidate(s, rootKey) == s

ConcurrentInit ==
    /\ \E xsdBytes \in {b \in RootBodies : parseBasicXSDError(b) = NoError} :
          /\ input = [kind |-> "ParseXSD", xsdBytes |-> xsdBytes, basePath |-> <<>>]
          /\ result = rebuildLookupMaps(parseBasicXSD(xsdBytes))
    /\ pc = "done"
    /\ stack = <<>>
    /\ visited = {}
    /\ loads = <<>>
    /\ err = NoError
    /\ doc = NoDoc
    /\ report = NoReport
    /\ calls = [c \in Callers |-> IdleCall]

\* A goroutine calls s.Validate(doc) with a document no other call is using.
CallValidate(c, d) ==
    /\ calls[c].pc = "idle"
    /\ d = NilDocument \/ \A other \in Callers \ {c} : calls[other].passed # d
    /\ calls' = [calls EXCEPT ![c] = [IdleCall EXCEPT !.pc = "entered", !.doc = d,
                                                     !.passed = d,
                                                     !.overlap = Overlapping(c)]]
    /\ UNCHANGED <<input, pc, stack, visited, loads, err, result, doc, report>>

\* Validate from its first statement to the call of validateNode.
LookupRoot(c) ==
    /\ calls[c].pc = "entered"
    /\ LET d == calls[c].doc
           met == calls[c].overlap \/ Overlapping(c)
           returns(errors) == [calls EXCEPT ![c].pc = "returned", ![c].overlap = met,
                                            ![c].report = ValidationError(errors)]
       IN IF d = NilDocument \/ d.Root = Nil
          THEN calls' = returns(<<[msg |-> "XML document is empty"]>>)
          ELSE LET elementKey == GetElementKey(result, d.Root.Name)
                   rootKey == IF elementKey \in DOMAIN result.ElementMap THEN elementKey
                              ELSE Str(d.Root.Name.Local)
               IN IF rootKey \notin DOMAIN result.ElementMap
                  THEN calls' = returns(<<[msg |-> "root element is not defined in the schema",
                                          element |-> d.Root.Name.Local]>>)
                  ELSE calls' = [calls EXCEPT ![c].pc = "validating", ![c].overlap = met,
                                              ![c].rootKey = rootKey]
    /\ UNCHANGED <<input, pc, stack, visited, loads, err, result, doc, report>>

\* s.validateNode(doc.Root, rootDef) and the return of Validate.
ValidateRoot(c, ord) ==
    /\ calls[c].pc = "validating"
    /\ LET rootDef == result.Elements[result.ElementMap[calls[c].rootKey]]
           errors == validateNode(result, ord, calls[c].doc.Root, rootDef)
       IN calls' = [calls EXCEPT ![c].pc = "returned", ![c].ord = ord,
                                 ![c].overlap = @ \/ Overlapping(c),
                                 ![c].report = AggregateResult(errors)]
    /\ result' = SchemaAfterValidate(result, calls[c].rootKey)
    /\ UNCHANGED <<input, pc, stack, visited, loads, err, doc, report>>

\* The caller has its report and is free to call again.
ReturnValidate(c) ==
    /\ calls[c].pc = "returned"
    /\ calls' = [calls EXCEPT ![c] = IdleCall]
    /\ UNCHANGED <<input, pc, stack, visited, loads, err, result, doc, report>>

ConcurrentNext ==
    \E c \in Callers :
        \/ \E d \in ConcurrentDocuments : CallValidate(c, d)
        \/ LookupRoot(c)
        \/ \E ord \in BOOLEAN : ValidateRoot(c, ord)
        \/ ReturnValidate(c)

ConcurrentSpec == ConcurrentInit /\ [][ConcurrentNext]_vars

\* ------------------------------------------------ the tree builder
\* Parse: the tokens of the decoder are taken one at a time and the Document is built
\* on the heap.  A node is addressed by its index in the sequence of the nodes
\* allocated so far; 0 is the nil pointer.
MaxTokens == 5

Tokens ==
    {[kind |-> "StartElement", name |-> "a"], [kind |-> "StartElement", name |-> "b"],
     [kind |-> "EndElement", name |-> ""], [kind |-> "CharData", name |-> "x"],
     [kind |-> "Comment", name |-> ""]}

\* The elements left open by the first n tokens.
RECURSIVE OpenElements(_, _)
OpenElements(tokens, n) ==
    IF n = 0 THEN 0
    ELSE OpenElements(tokens, n - 1)
         + (CASE tokens[n].kind = "StartElement" -> 1
              [] tokens[n].kind = "EndElement" -> -1
              [] OTHER -> 0)

\* decoder.Token(): the next token; a syntax error for an end tag that closes nothing
\* and for the end of the input inside an open element; io.EOF otherwise.
decoderToken(tokens, pos) ==
    IF pos > Len(tokens)
    THEN IF OpenElements(tokens, Len(tokens)) > 0 THEN [kind |-> "SyntaxError", name |-> ""]
         ELSE [kind |-> "EOF", name |-> ""]
    ELSE IF tokens[pos].kind = "EndElement" /\ OpenElements(tokens, pos - 1) = 0
    THEN [kind |-> "SyntaxError", name |-> ""]
    ELSE tokens[pos]

xmlParser(nodes, root, currentNode, pos) ==
    [kind |-> "xmlParser", nodes |-> nodes, Root |-> root, currentNode |-> currentNode,
     pos |-> pos]

ParseInit ==
    /\ input \in {[kind |-> "Parse", tokens |-> tokens] : tokens \in SeqsUpTo(Tokens, MaxTokens)}
    /\ pc = "parsing"
    /\ doc = xmlParser(<<>>, 0, 0, 1)
    /\ calls = [c \in Callers |-> IdleCall]
    /\ stack = <<>>
    /\ visited = {}
    /\ loads = <<>>
    /\ err = NoError
    /\ result = Nil
    /\ report = NoReport

NextToken == decoderToken(input.tokens, doc.pos)

\* The node appended to the children of the current node.
AppendChild(nodes, parent, child) ==
    IF parent = 0 THEN nodes
    ELSE [nodes EXCEPT ![parent].Children = Append(@, child)]

handleStartElement ==
    /\ pc = "parsing"
    /\ NextToken.kind = "StartElement"
    /\ LET node == Len(doc.nodes) + 1
           allocated == Append(doc.nodes, [Parent |-> doc.currentNode, Name |-> NextToken.name,
                                           Children |-> <<>>, Content |-> <<>>])
       IN doc' = xmlParser(AppendChild(allocated, doc.currentNode, node),
                           IF doc.Root = 0 THEN node ELSE doc.Root,
                           node, doc.pos + 1)
    /\ UNCHANGED <<input, pc, stack, visited, loads, err, result, report, calls>>

handleCharData ==
    /\ pc = "parsing"
    /\ NextToken.kind = "CharData"
    /\ doc' = [doc EXCEPT !.pos = @ + 1,
                          !.nodes = IF doc.currentNode = 0 THEN @
                                    ELSE [@ EXCEPT ![doc.currentNode].Content =
                                                       Append(@, NextToken.name)]]
    /\ UNCHANGED <<input, pc, stack, visited, loads, err, result, report, calls>>

handleEndElement ==
    /\ pc = "parsing"
    /\ NextToken.kind = "EndElement"
    /\ doc' = [doc EXCEPT !.pos = @ + 1,
                          !.currentNode = IF @ = 0 THEN 0 ELSE doc.nodes[@].Parent]
    /\ UNCHANGED <<input, pc, stack, visited, loads, err, result, report, calls>>

\* Comments, processing instructions and the other tokens are passed over.
processToken ==
    /\ pc = "parsing"
    /\ NextToken.kind = "Comment"
    /\ doc' = [doc EXCEPT !.pos = @ + 1]
    /\ UNCHANGED <<input, pc, stack, visited, loads, err, result, report, calls>>

\* The ends of parseDocument: the error of the decoder, the document without root,
\* the document.
parseDocument ==
    /\ pc = "parsing"
    /\ NextToken.kind \in {"SyntaxError", "EOF"}
    /\ IF NextToken.kind = "SyntaxError"
       THEN pc' = "failed" /\ err' = [kind |-> "XML parsing error"]
       ELSE IF doc.Root = 0
       THEN pc' = "failed" /\ err' = [kind |-> "XML document is empty"]
       ELSE pc' = "parsed" /\ err' = NoError
    /\ UNCHANGED <<input, stack, visited, loads, result, doc, report, calls>>

ParseNext ==
    \/ handleStartElement
    \/ handleCharData
    \/ handleEndElement
    \/ processToken
    \/ parseDocument

ParseSpec == ParseInit /\ [][ParseNext]_vars

Next ==
    \/ pc = "idle"
       /\ \E xsdBytes \in RootSchemas, basePath \in BasePathArgs : ParseXSD(xsdBytes, basePath)
    \/ processIncludeWithTracker
    \/ processImportWithTracker
    \/ parseXSDWithImportsAndTracker
    \/ PropagateError
    \/ pc = "done"
       /\ report = NoReport
       /\ \E d \in Documents, ord \in BOOLEAN : Validate(d, ord)

Spec == Init /\ [][Next]_vars

\* ======================================================== properties

SourceText(source) == IF source.url THEN Net[source.at] ELSE Files[source.at]

Succeeded == pc = "done" /\ result # Nil

\* C1: every cycle of the include/import graph is cut: no document is entered again
\* while it is being resolved, and the recursion never outgrows the stack.
C1_CycleIsCut ==
    /\ pc # "overflow"
    /\ \A i, j \in 2..Len(stack) : i # j => stack[i].source # stack[j].source

\* C2: the visited set holds exactly the locations of the calls in progress, so every
\* return (success or error) restores what the call found, and it is empty once
\* ParseXSD has returned.
C2_VisitedScoped ==
    /\ pc \in {"resolving", "unwinding"} => visited = {stack[k].key : k \in 2..Len(stack)}
    /\ pc \in {"idle", "done"} => visited = {}

C2_Witness ==
    /\ pc = "done"
    /\ err.kind = "circular"
    /\ Len(loads) >= 2
    /\ visited = {}

\* C3: once an error is raised nothing more is loaded, the error travels up unchanged,
\* and ParseXSD returns a schema exactly when it returns no error.
C3_FailFast ==
    [][/\ pc = "unwinding" =>
            /\ loads' = loads
            /\ err' = err
            /\ pc' \in {"unwinding", "done"}
       /\ pc' = "done" => (err' # NoError <=> result' = Nil)]_vars

C3_Witness ==
    /\ pc = "unwinding"
    /\ err.kind = "load"
    /\ Len(stack) >= 2
    /\ Top.incIdx < Len(Top.schema.Includes)

CleanCollection(coll) ==
    /\ \A i \in 1..Len(coll) : coll[i].Name # EmptyStr
    /\ \A i, j \in 1..Len(coll) : i # j => coll[i].Name # coll[j].Name

CleanSchema(s) ==
    /\ CleanCollection(s.Elements)
    /\ CleanCollection(s.ComplexTypes)
    /\ CleanCollection(s.SimpleTypes)

TopFinished ==
    /\ pc = "resolving"
    /\ Top.incIdx > Len(Top.schema.Includes)
    /\ Top.impIdx > Len(Top.schema.Imports)

\* C4: loading fails when the root schema, or the collections after merging, hold a
\* nameless definition or two definitions of one kind with one name; the index build
\* over merged collections fails for no other reason (the same name in two kinds
\* is accepted).
C4_IndexBuildFails ==
    [][/\ (pc = "idle" /\ pc' # "idle" /\ input'.xsdBytes.wellFormed
           /\ ~CleanSchema(input'.xsdBytes))
          => (pc' = "done" /\ err'.kind \in {"missing_name", "duplicate"} /\ result' = Nil)
       /\ TopFinished =>
            (~CleanSchema(Top.schema)
                <=> (pc' = "unwinding" /\ err'.kind \in {"missing_name", "duplicate"}))
       /\ (pc' = "done" /\ result' # Nil) => CleanSchema(result')]_vars

C4_Witness ==
    /\ pc = "unwinding"
    /\ err.kind = "duplicate"
    /\ Len(stack) = 1
    /\ CleanSchema(input.xsdBytes)
    /\ ~CleanCollection(Top.schema.SimpleTypes)

MapIndexes(map, coll) ==
    /\ DOMAIN map = Names(coll)
    /\ Cardinality(DOMAIN map) = Len(coll)
    /\ \A n \in DOMAIN map : map[n] \in 1..Len(coll) /\ coll[map[n]].Name = n

\* C5: when ParseXSD succeeds each lookup table indexes exactly the final merged
\* collection of its kind: same names, as many entries, each entry the definition of
\* that name.
C5_MapsOverMerged ==
    Succeeded =>
        /\ MapIndexes(result.ElementMap, result.Elements)
        /\ MapIndexes(result.ComplexTypeMap, result.ComplexTypes)
        /\ MapIndexes(result.SimpleTypeMap, result.SimpleTypes)

C5_Witness ==
    /\ Succeeded
    /\ Len(loads) >= 2
    /\ Str("AddressType") \in DOMAIN result.ComplexTypeMap
    /\ Str("ZipCodeType") \in DOMAIN result.SimpleTypeMap

LoadedNames(field) ==
    UNION {Names(SourceText(loads[i].source)[field]) : i \in 1..Len(loads)}

\* C6: when only includes are followed, the merged element, complex-type and
\* simple-type names are the names of the root together with the names of every
\* fragment loaded, at whatever depth it was included.
C6_IncludeFlattens ==
    (Succeeded /\ \A i \in 1..Len(loads) : loads[i].via = "include") =>
        /\ Names(result.Elements) = Names(input.xsdBytes.Elements) \cup LoadedNames("Elements")
        /\ Names(result.ComplexTypes) =
               Names(input.xsdBytes.ComplexTypes) \cup LoadedNames("ComplexTypes")
        /\ Names(result.SimpleTypes) =
               Names(input.xsdBytes.SimpleTypes) \cup LoadedNames("SimpleTypes")

C6_Witness ==
    /\ Succeeded
    /\ Len(input.xsdBytes.Includes) = 1
    /\ Len(loads) = 2
    /\ \A i \in 1..Len(loads) : loads[i].via = "include"
    /\ Str("ZipCodeType") \in Names(result.SimpleTypes)
    /\ Str("AddressType") \in Names(result.ComplexTypes)

MismatchedImport(load) ==
    /\ load.via = "import"
    /\ load.ok
    /\ SourceText(load.source).wellFormed
    /\ load.ref.Namespace # EmptyStr
    /\ SourceText(load.source).TargetNamespace # load.ref.Namespace

\* C7: an import whose declared namespace differs from the target namespace of the
\* loaded fragment makes ParseXSD fail, and the step that detects it leaves the
\* importing schema as it was.
C7_NamespaceMismatch ==
    [][/\ (pc' = "done" /\ \E i \in 1..Len(loads') : MismatchedImport(loads'[i]))
            => (err' # NoError /\ result' = Nil)
       /\ (TopFinished /\ Top.via = "import" /\ Top.ref.Namespace # EmptyStr
           /\ CleanSchema(Top.schema) /\ Top.schema.TargetNamespace # Top.ref.Namespace)
            => /\ pc' = "unwinding"
               /\ err'.kind = "namespace_mismatch"
               /\ stack' = Front(stack)]_vars

C7_Witness ==
    /\ pc = "done"
    /\ err.kind = "namespace_mismatch"
    /\ result = Nil

ImportAtTop ==
    /\ pc = "resolving"
    /\ Top.incIdx > Len(Top.schema.Includes)
    /\ Top.impIdx <= Len(Top.schema.Imports)

BareInclude(text) ==
    \E i \in 1..Len(text.Includes) : text.Includes[i].SchemaLocation = EmptyPath

\* C8: an include without schemaLocation is an error; an import without
\* schemaLocation is skipped: nothing is loaded, the visited set and the schema are
\* unchanged, and no error is raised.
C8_MissingLocation ==
    [][/\ (pc = "resolving" /\ Top.incIdx <= Len(Top.schema.Includes)
           /\ Top.schema.Includes[Top.incIdx].SchemaLocation = EmptyPath)
            => (pc' = "unwinding" /\ err'.kind = "include_without_location")
       /\ (ImportAtTop /\ Top.schema.Imports[Top.impIdx].SchemaLocation = EmptyPath)
            => /\ loads' = loads
               /\ visited' = visited
               /\ err' = NoError
               /\ pc' = "resolving"
               /\ stack' = [stack EXCEPT ![Len(stack)].impIdx = @ + 1]
       /\ (pc' = "done"
           /\ \/ BareInclude(input'.xsdBytes)
              \/ \E i \in 1..Len(loads') :
                    loads'[i].ok /\ BareInclude(SourceText(loads'[i].source)))
            => (err' # NoError /\ result' = Nil)]_vars

C8_Witness ==
    /\ Succeeded
    /\ loads = <<>>
    /\ Len(input.xsdBytes.Imports) = 1
    /\ input.xsdBytes.Imports[1].SchemaLocation = EmptyPath
    /\ Names(result.Elements) = Names(input.xsdBytes.Elements)

ReportedErrors == IF report.kind = "ValidationError" THEN report.Errors ELSE <<>>

RootKey(s, d) ==
    IF GetElementKey(s, d.Root.Name) \in Names(s.Elements)
    THEN GetElementKey(s, d.Root.Name)
    ELSE Str(d.Root.Name.Local)

Traversable(s, d) ==
    /\ d # NilDocument
    /\ d.Root # Nil
    /\ RootKey(s, d) \in Names(s.Elements)

RootDeclaration(s, d) ==
    s.Elements[CHOOSE i \in 1..Len(s.Elements) : s.Elements[i].Name = RootKey(s, d)]

\* C9: a nil document, a document without root and a root without top-level
\* declaration give an aggregate of exactly one error; any other document gives nil
\* exactly when traversal from the root collects no violation, and the aggregate of
\* all the violations collected otherwise.
C9_WholeDocumentFailures ==
    report # NoReport =>
        IF ~Traversable(result, doc)
        THEN report.kind = "ValidationError" /\ Len(report.Errors) = 1
        ELSE \E ord \in BOOLEAN :
                LET errors == validateNode(result, ord, doc.Root, RootDeclaration(result, doc))
                IN /\ report = Valid <=> errors = <<>>
                   /\ report # Valid => (report.kind = "ValidationError" /\ report.Errors = errors)

C9_Witness ==
    /\ report # NoReport
    /\ doc = Document(Leaf(EmptyStr, "customer", ""))
    /\ report.kind = "ValidationError"
    /\ Len(report.Errors) = 1
    /\ report.Errors[1].msg = "root element is not defined in the schema"

\* The declaration that the content model of a node gives to one of its children.
ChildDeclaration(s, def, childName) ==
    LET ct == getComplexType(s, def)
    IN IF ct = Nil THEN Nil
       ELSE IF ct.Sequence # Nil THEN findChildElement(s, childName, ct.Sequence)
       ELSE IF ct.Choice # Nil THEN findChoiceElement(s, childName, ct.Choice)
       ELSE IF ct.All # Nil THEN findAllElement(s, childName, ct.All)
       ELSE Nil

RECURSIVE MatchedDescendants(_, _, _)
MatchedDescendants(s, node, def) ==
    LET matched == {i \in 1..Len(node.Children) :
                       ChildDeclaration(s, def, node.Children[i].Name) # Nil}
        decl(i) == ChildDeclaration(s, def, node.Children[i].Name)
    IN {[node |-> node.Children[i], def |-> decl(i)] : i \in matched}
       \cup UNION {MatchedDescendants(s, node.Children[i], decl(i)) : i \in matched}

\* C10: whatever was collected before, every descendant of the root that matches a
\* declared element is validated, and each violation found at it is in the report
\* of Validate.
C10_NoStopAtFirst ==
    (report # NoReport /\ Traversable(result, doc)) =>
        \E ord \in BOOLEAN :
            \A p \in MatchedDescendants(result, doc.Root, RootDeclaration(result, doc)) :
                LET found == validateNode(result, ord, p.node, p.def)
                IN \A k \in 1..Len(found) :
                      \E j \in 1..Len(ReportedErrors) : ReportedErrors[j] = found[k]

C10_Witness ==
    /\ report.kind = "ValidationError"
    /\ Len(report.Errors) >= 3
    /\ report.Errors[1].msg = "is not a valid child of"
    /\ \E p \in MatchedDescendants(result, doc.Root, RootDeclaration(result, doc)) :
          /\ p.node.Name.Local = "zipcode"
          /\ \E ord \in BOOLEAN : Len(validateNode(result, ord, p.node, p.def)) > 0

\* The nodes that traversal validates: the root and its matched descendants.
ValidatedNodes(s, d) ==
    {[node |-> d.Root, def |-> RootDeclaration(s, d)]}
    \cup MatchedDescendants(s, d.Root, RootDeclaration(s, d))

SequenceOf(s, def) ==
    IF getComplexType(s, def) = Nil THEN Nil ELSE getComplexType(s, def).Sequence

MatchingChildren(s, node, element) ==
    Cardinality({i \in 1..Len(node.Children) :
                    elementsMatch(s, node.Children[i].Name, element.Name)})

\* minOccurs as the schema language reads it: 1 when unspecified.
EffectiveMin(element) == IF element.MinOccurs = "" THEN 1 ELSE Atoi(element.MinOccurs).val

Reported(e) == \E j \in 1..Len(ReportedErrors) : ReportedErrors[j] = e

\* C11: for every node validated against a sequence and every element of the
\* sequence whose minimum occurrence (1 when unspecified) exceeds the number of
\* matching children, the report holds a message with the parent name, the child
\* name, the minimum and the count found.
C11_MinOccursReported ==
    (report # NoReport /\ Traversable(result, doc)) =>
        \A p \in ValidatedNodes(result, doc) :
            SequenceOf(result, p.def) # Nil =>
                \A i \in 1..Len(SequenceOf(result, p.def).Elements) :
                    LET element == SequenceOf(result, p.def).Elements[i]
                        count == MatchingChildren(result, p.node, element)
                    IN count < EffectiveMin(element) =>
                           Reported([msg |-> "requires at least",
                                     parent |-> p.node.Name.Local,
                                     min |-> EffectiveMin(element),
                                     child |-> element.Name, found |-> count])

ChoiceOf(s, def) ==
    IF getComplexType(s, def) = Nil \/ getComplexType(s, def).Sequence # Nil THEN Nil
    ELSE getComplexType(s, def).Choice

\* The distinct names among the children that match an alternative of the choice.
AlternativesPresent(s, node, choice) ==
    {node.Children[i].Name.Local :
        i \in {k \in 1..Len(node.Children) :
                  findChoiceElement(s, node.Children[k].Name, choice) # Nil}}

OnlyOneAlternativeEntries(node) ==
    {j \in 1..Len(ReportedErrors) :
        /\ ReportedErrors[j].msg = "choice allows only one alternative"
        /\ ReportedErrors[j].element = node.Name.Local}

\* C12: a node validated against a choice with default occurrence bounds whose
\* matched children carry two different names yields exactly one 'only one
\* alternative' violation; with maxOccurs "unbounded" or a number other than 1 it
\* yields none.  (Each document holds at most one node of a given name with a choice.)
C12_OnlyOneAlternative ==
    (report # NoReport /\ Traversable(result, doc)) =>
        \A p \in ValidatedNodes(result, doc) :
            LET choice == ChoiceOf(result, p.def)
            IN choice # Nil =>
                /\ (choice.MaxOccurs = ""
                    /\ Cardinality(AlternativesPresent(result, p.node, choice)) >= 2)
                      => Cardinality(OnlyOneAlternativeEntries(p.node)) = 1
                /\ (choice.MaxOccurs = "unbounded"
                    \/ (Atoi(choice.MaxOccurs).ok /\ Atoi(choice.MaxOccurs).val # 1))
                      => OnlyOneAlternativeEntries(p.node) = {}

C12_Witness ==
    /\ report # NoReport
    /\ Traversable(result, doc)
    /\ doc.Root.Name.Local = "contact"
    /\ Len(doc.Root.Children) = 2
    /\ doc.Root.Children[1].Name.Local = "phone"
    /\ doc.Root.Children[2].Name.Local = "email"
    /\ Cardinality(OnlyOneAlternativeEntries(doc.Root)) = 1
    /\ Len(report.Errors) >= 2

AllOf(s, def) ==
    IF getComplexType(s, def) = Nil \/ getComplexType(s, def).Sequence # Nil
       \/ getComplexType(s, def).Choice # Nil
    THEN Nil
    ELSE getComplexType(s, def).All

\* The children of the node that carry the name and match a declaration of the group.
DeclaredOccurrences(s, node, all, local) ==
    {i \in 1..Len(node.Children) :
        /\ node.Children[i].Name.Local = local
        /\ findAllElement(s, node.Children[i].Name, all) # Nil}

\* C13: a node validated against an all group in which a declared child name occurs
\* N > 1 times yields the violation 'appears N times, maximum is 1' for that name,
\* whatever minOccurs and maxOccurs its declaration carries.
C13_AllAtMostOnce ==
    (report # NoReport /\ Traversable(result, doc)) =>
        \A p \in ValidatedNodes(result, doc) :
            AllOf(result, p.def) # Nil =>
                \A local \in ChildLocals(p.node) :
                    LET n == Cardinality(DeclaredOccurrences(result, p.node,
                                                             AllOf(result, p.def), local))
                    IN n > 1 => Reported([msg |-> "appears too often in xs:all group",
                                          child |-> local, times |-> n, max |-> 1])

C13_Witness ==
    /\ report # NoReport
    /\ Traversable(result, doc)
    /\ doc.Root.Name.Local = "config"
    /\ Len(doc.Root.Children) = 2
    /\ \A i \in 1..2 : doc.Root.Children[i].Name.Local = "port"
    /\ Reported([msg |-> "appears too often in xs:all group",
                 child |-> "port", times |-> 2, max |-> 1])

ComplexTypeOf(s, def) == getComplexType(s, def)

\* A namespace declaration of XML: xmlns="..." or xmlns:prefix="...".
DeclaresNamespace(attr) == attr.Name.Space = <<"xmlns">> \/ attr.Name.Local = "xmlns"

\* The attributes of the node that carry the declared name (namespace declarations
\* are no attributes of the element).
AttributesNamed(node, attrDef) ==
    {i \in 1..Len(node.Attrs) :
        /\ ~DeclaresNamespace(node.Attrs[i])
        /\ Str(node.Attrs[i].Name.Local) = attrDef.Name}

AttributeValue(node, attrDef) ==
    node.Attrs[CHOOSE i \in AttributesNamed(node, attrDef) :
                  \A j \in AttributesNamed(node, attrDef) : j <= i].Value

MissingEntries(node, attrDef) ==
    {j \in 1..Len(ReportedErrors) :
        /\ ReportedErrors[j].msg = "required attribute is missing"
        /\ ReportedErrors[j].decl = attrDef.Name
        /\ ReportedErrors[j].element = node.Name.Local}

ValueEntries(node, attrDef) ==
    {j \in 1..Len(ReportedErrors) :
        /\ ReportedErrors[j].msg \in {"has fixed value", "attribute"}
        /\ ReportedErrors[j].attribute = attrDef.Name
        /\ ReportedErrors[j].element = node.Name.Local}

\* C14: for each attribute declared on the complex type of a validated node: required
\* and absent gives exactly one 'required attribute is missing' violation and no
\* other entry for it; present with a value other than the declared fixed value gives
\* a 'fixed value' violation; optional and absent gives no violation.
C14_DeclaredAttributes ==
    (report # NoReport /\ Traversable(result, doc)) =>
        \A p \in ValidatedNodes(result, doc) :
            ComplexTypeOf(result, p.def) # Nil =>
                \A k \in 1..Len(ComplexTypeOf(result, p.def).Attributes) :
                    LET attrDef == ComplexTypeOf(result, p.def).Attributes[k]
                        present == AttributesNamed(p.node, attrDef) # {}
                    IN /\ (attrDef.Use = "required" /\ ~present) =>
                            /\ Cardinality(MissingEntries(p.node, attrDef)) = 1
                            /\ ValueEntries(p.node, attrDef) = {}
                       /\ (present /\ attrDef.Fixed # ""
                           /\ AttributeValue(p.node, attrDef) # attrDef.Fixed) =>
                            Reported([msg |-> "has fixed value", attribute |-> attrDef.Name,
                                      element |-> p.node.Name.Local,
                                      fixed |-> attrDef.Fixed,
                                      got |-> AttributeValue(p.node, attrDef)])
                       /\ (attrDef.Use # "required" /\ ~present) =>
                            /\ MissingEntries(p.node, attrDef) = {}
                            /\ ValueEntries(p.node, attrDef) = {}

UndeclaredAttributes(node, complexType) ==
    {i \in 1..Len(node.Attrs) :
        /\ ~DeclaresNamespace(node.Attrs[i])
        /\ \A k \in 1..Len(complexType.Attributes) :
              complexType.Attributes[k].Name # Str(node.Attrs[i].Name.Local)}

UnexpectedEntries(node) ==
    {j \in 1..Len(ReportedErrors) :
        /\ ReportedErrors[j].msg = "unexpected attribute"
        /\ ReportedErrors[j].element = node.Name.Local}

FacetsReturned ==
    /\ pc = "returned"
    /\ input.simpleType # Nil
    /\ input.simpleType.Restriction # Nil

\* The restriction with every facet removed but those of the one field kept.
OnlyFacet(restriction, field) ==
    [f \in DOMAIN restriction |->
        IF f \in {"kind", "Base", field} THEN restriction[f]
        ELSE IF f = "Enumeration" THEN <<>> ELSE Nil]

\* What one facet reports when it is the only facet of the restriction.
Alone(field) ==
    LET only == OnlyFacet(input.simpleType.Restriction, field)
    IN CASE field = "Pattern" ->
               IF only.Pattern # Nil THEN validatePattern(input.content, only.Pattern.Value)
               ELSE <<>>
         [] field = "Enumeration" ->
               IF only.Enumeration # <<>>
               THEN validateEnumeration(input.content, only.Enumeration)
               ELSE <<>>
         [] field \in {"MinLength", "MaxLength"} ->
               validateLengthConstraints(input.content, only)
         [] OTHER -> validateNumericConstraints(input.content, only)

\* C16: the facets are checked independently and cumulatively: the entries for a
\* value and a restriction are, in order, what the pattern, the enumeration,
\* minLength, maxLength, minInclusive and maxInclusive each report on their own.
C16_FacetsCumulative ==
    FacetsReturned =>
        report.Errors = Alone("Pattern") \o Alone("Enumeration") \o Alone("MinLength")
                        \o Alone("MaxLength") \o Alone("MinInclusive")
                        \o Alone("MaxInclusive")

C16_Witness ==
    /\ FacetsReturned
    /\ input.content = "abcdefg"
    /\ Len(report.Errors) = 2
    /\ report.Errors[1].msg = "does not match pattern"
    /\ report.Errors[2].msg = "is too long"

\* Comparison of two int64 as integers.
IntLess(a, b) == a.base < b.base \/ (a.base = b.base /\ a.val < b.val)

IntegerRange ==
    /\ FacetsReturned
    /\ input.simpleType.Restriction.Base \in IntegerBases
    /\ ParseInt(TrimSpace(input.content)).ok

RangeEntry(direction, facet) ==
    [msg |-> direction, value |-> input.content, limit |-> facet.Value]

InErrors(e) == \E j \in 1..Len(report.Errors) : report.Errors[j] = e

\* C17: for a restriction with an integer-family base, parsable limits and integer
\* content v, 'below minimum' is reported exactly when v < minInclusive and 'exceeds
\* maximum' exactly when v > maxInclusive; the bounds themselves are accepted.
C17_IntegerRange ==
    IntegerRange =>
        LET restriction == input.simpleType.Restriction
            v == ParseInt(TrimSpace(input.content))
        IN /\ (restriction.MinInclusive # Nil /\ ParseInt(restriction.MinInclusive.Value).ok)
                => (InErrors(RangeEntry("below minimum", restriction.MinInclusive))
                      <=> IntLess(v, ParseInt(restriction.MinInclusive.Value)))
           /\ (restriction.MaxInclusive # Nil /\ ParseInt(restriction.MaxInclusive.Value).ok)
                => (InErrors(RangeEntry("exceeds maximum", restriction.MaxInclusive))
                      <=> IntLess(ParseInt(restriction.MaxInclusive.Value), v))

\* The schema as ParseXSD returned it to the callers.
ResolvedSchema == rebuildLookupMaps(parseBasicXSD(input.xsdBytes))

Members(complexType) ==
    IF complexType = Nil THEN {}
    ELSE IF complexType.Sequence # Nil THEN Range(complexType.Sequence.Elements)
    ELSE IF complexType.Choice # Nil THEN Range(complexType.Choice.Elements)
    ELSE IF complexType.All # Nil THEN Range(complexType.All.Elements)
    ELSE {}

DeclaredElements(text) ==
    Range(text.Elements)
    \cup UNION {Members(e.ComplexType) : e \in Range(text.Elements)}
    \cup UNION {Members(ct) : ct \in Range(text.ComplexTypes)}

UnparsableOccurs(e) ==
    \/ e.MinOccurs # "" /\ ~Atoi(e.MinOccurs).ok
    \/ e.MaxOccurs \notin {"", "unbounded"} /\ ~Atoi(e.MaxOccurs).ok

UnparsableLimit(simpleType) ==
    /\ simpleType # Nil
    /\ simpleType.Restriction # Nil
    /\ \/ \E f \in {simpleType.Restriction.MinLength, simpleType.Restriction.MaxLength} :
             f # Nil /\ ~Atoi(f.Value).ok
       \/ \E f \in {simpleType.Restriction.MinInclusive, simpleType.Restriction.MaxInclusive} :
             f # Nil /\ ~ParseFloat(f.Value).ok

SchemaAuthoringError(text) ==
    \/ \E e \in DeclaredElements(text) : UnparsableOccurs(e) \/ UnparsableLimit(e.SimpleType)
    \/ \E st \in Range(text.SimpleTypes) : UnparsableLimit(st)

\* C19: a schema that contains an unparsable occurrence value or an unparsable facet
\* limit makes ParseXSD fail with an error and no schema, so that no document is
\* validated against it.
C19_AuthoringErrorsFailLoad ==
    (pc = "done" /\ input.kind = "ParseXSD" /\ SchemaAuthoringError(input.xsdBytes))
        => (err # NoError /\ result = Nil /\ report = NoReport)

\* The children of the node that sequence validation matched to the element.
MatchedTo(s, node, sequence, element) ==
    {i \in 1..Len(node.Children) :
        findChildElement(s, node.Children[i].Name, sequence) = element}

OccurrenceEntries(kind, node, element) ==
    {j \in 1..Len(ReportedErrors) :
        /\ ReportedErrors[j].msg = kind
        /\ ReportedErrors[j].parent = node.Name.Local
        /\ ReportedErrors[j].child = element.Name}

\* The entries are exactly those of a comparison of count with the bound.
ComparedWith(entries, violated, count) ==
    /\ entries # {} <=> violated
    /\ \A j \in entries : ReportedErrors[j].found = count

\* C20: in sequence validation the count compared with the minOccurs and maxOccurs of
\* a declared element is the number of children matched to it by qualified name,
\* prefixed schema names included; a child that matches no declared element is
\* reported as not a valid child and is not counted; a count above a numeric
\* maxOccurs is reported and "unbounded" sets no upper limit.
C20_SequenceCounts ==
    (report # NoReport /\ Traversable(result, doc)) =>
        \A p \in ValidatedNodes(result, doc) :
            SequenceOf(result, p.def) # Nil =>
                LET sequence == SequenceOf(result, p.def)
                IN /\ \A i \in 1..Len(sequence.Elements) :
                         LET element == sequence.Elements[i]
                             count == Cardinality(MatchedTo(result, p.node, sequence, element))
                         IN /\ (element.MinOccurs # "" /\ Atoi(element.MinOccurs).ok) =>
                                  ComparedWith(OccurrenceEntries("requires at least", p.node, element),
                                               count < Atoi(element.MinOccurs).val, count)
                            /\ Atoi(element.MaxOccurs).ok =>
                                  ComparedWith(OccurrenceEntries("allows at most", p.node, element),
                                               count > Atoi(element.MaxOccurs).val, count)
                            /\ element.MaxOccurs = "unbounded" =>
                                  OccurrenceEntries("allows at most", p.node, element) = {}
                   /\ \A k \in 1..Len(p.node.Children) :
                         findChildElement(result, p.node.Children[k].Name, sequence) = Nil =>
                            Reported([msg |-> "is not a valid child of",
                                      child |-> p.node.Children[k].Name.Local,
                                      parent |-> p.node.Name.Local])

\* The node with its children in another order.
Permuted(node, f) == [node EXCEPT !.Children = [i \in 1..Len(node.Children) |-> node.Children[f[i]]]]

Occurrences(errors, e) == Cardinality({j \in 1..Len(errors) : errors[j] = e})

SameMultiset(a, b) ==
    /\ Len(a) = Len(b)
    /\ \A j \in 1..Len(a) : Occurrences(a, a[j]) = Occurrences(b, a[j])

OrderFree(s, def) == SequenceOf(s, def) # Nil \/ AllOf(s, def) # Nil

ChoiceSelections(s, node, choice) ==
    Cardinality({k \in 1..Len(node.Children) :
                    findChoiceElement(s, node.Children[k].Name, choice) # Nil})

ChoiceBoundsBroken(choice, selections) ==
    \/ choice.MinOccurs = "" /\ selections < 1
    \/ Atoi(choice.MinOccurs).ok /\ selections < Atoi(choice.MinOccurs).val
    \/ choice.MaxOccurs = "" /\ selections > 1
    \/ Atoi(choice.MaxOccurs).ok /\ selections > Atoi(choice.MaxOccurs).val

ChoiceMessages ==
    {"must contain at least one choice element", "choice allows only one alternative",
     "choice requires at least", "choice allows at most"}

ChoiceEntries(node) ==
    {j \in 1..Len(ReportedErrors) :
        /\ ReportedErrors[j].msg \in ChoiceMessages
        /\ ReportedErrors[j].element = node.Name.Local}

\* C22: the occurrence bounds of a choice (minimum 1 and maximum 1 when unspecified)
\* apply to the number of selections: a node whose matched choice children are fewer
\* than minOccurs or more than a numeric maxOccurs is reported as a violation.
C22_ChoiceOccurrences ==
    (report # NoReport /\ Traversable(result, doc)) =>
        \A p \in ValidatedNodes(result, doc) :
            (/\ ChoiceOf(result, p.def) # Nil
             /\ ChoiceBoundsBroken(ChoiceOf(result, p.def),
                                   ChoiceSelections(result, p.node, ChoiceOf(result, p.def))))
                => ChoiceEntries(p.node) # {}

\* The range facets that validateNumericConstraints evaluates.
EvaluatedLimits(restriction) ==
    {f \in {restriction.MinInclusive, restriction.MaxInclusive} : f # Nil /\ f.Value # ""}

\* C23: whenever a minInclusive or maxInclusive facet is evaluated and its limit value
\* does not parse, 'invalid limit value in schema' is reported, whatever the base type
\* and whether or not the content parses as a number.
C23_UnparsableLimitReported ==
    (FacetsReturned /\ input.simpleType.Restriction # Nil) =>
        \A f \in EvaluatedLimits(input.simpleType.Restriction) :
            ~ParseFloat(f.Value).ok =>
                InErrors([msg |-> "invalid limit value in schema", limit |-> f.Value])

\* The declaration resolves to no complex type, or to one without content model.
PermitsNoChildren(s, def) ==
    \/ getComplexType(s, def) = Nil
    \/ /\ getComplexType(s, def).Sequence = Nil
       /\ getComplexType(s, def).Choice = Nil
       /\ getComplexType(s, def).All = Nil

\* The entries that report children the node may not have.
ChildrenEntries(node) ==
    {j \in 1..Len(ReportedErrors) :
        \/ /\ ReportedErrors[j].msg = "should be empty but has children"
           /\ ReportedErrors[j].element = node.Name.Local
        \/ /\ ReportedErrors[j].msg \in {"is not a valid child of", "is not a valid choice for",
                                         "is not allowed in xs:all group"}
           /\ ReportedErrors[j].parent = node.Name.Local}

\* C24: a validated node that has child elements while its declaration permits none
\* (no complex type, the inline one taken before the named one, or a complex type
\* without sequence, choice and all) is reported as a violation.
C24_ChildrenWhereNonePermitted ==
    (report # NoReport /\ Traversable(result, doc)) =>
        \A p \in ValidatedNodes(result, doc) :
            (Len(p.node.Children) > 0 /\ PermitsNoChildren(result, p.def))
                => ChildrenEntries(p.node) # {}

\* The step at which a resolved import is merged into the schema that imports it.
ImportMerged ==
    /\ pc = "resolving"
    /\ Len(stack) >= 2
    /\ Top.via = "import"
    /\ pc' = "resolving"
    /\ Len(stack') = Len(stack) - 1

\* The definitions of the collection, each under the name p:name.
Renamed(coll, p) ==
    [i \in 1..Len(coll) |-> [coll[i] EXCEPT !.Name = <<p>> \o coll[i].Name]]

Collections == {"Elements", "ComplexTypes", "SimpleTypes"}

\* C25: when an import is merged and the importing schema binds a non-empty prefix p
\* to the imported namespace, every element, complex type and simple type of the
\* resolved imported fragment (nested includes and imports included) is appended to
\* the importing schema under p:name and under no other name; with no such prefix the
\* definitions are appended verbatim; nothing else on the stack is renamed.
C25_ImportPrefixes ==
    [][ImportMerged =>
          LET imported == Top.schema
              before == stack[Len(stack) - 1].schema
              after == stack'[Len(stack')].schema
              bound == {p \in DOMAIN before.Xmlns :
                           p # "" /\ before.Xmlns[p] = Top.ref.Namespace}
          IN /\ bound # {} =>
                   \E p \in bound : \A field \in Collections :
                       after[field] = before[field] \o Renamed(imported[field], p)
             /\ bound = {} =>
                   \A field \in Collections : after[field] = before[field] \o imported[field]
             /\ \A k \in 1..(Len(stack') - 1) : stack'[k] = stack[k]]_vars

C25_Witness ==
    /\ Succeeded
    /\ Len(input.xsdBytes.Imports) = 1
    /\ input.xsdBytes.Imports[1].Namespace = NsAddr
    /\ "addr" \in DOMAIN result.Xmlns
    /\ <<"addr", "address">> \in Names(result.Elements)
    /\ <<"addr", "AddressType">> \in Names(result.ComplexTypes)
    /\ <<"addr", "ZipCodeType">> \in Names(result.SimpleTypes)
    /\ Str("address") \notin Names(result.Elements)

\* C26: within one resolution every reference to the same fragment is recorded in the
\* visited set under the same key, whatever fragment and base path the reference comes
\* from and whether its location is a relative path, an absolute path or a URL.
C26_CanonicalKeys ==
    \A i, j \in 1..Len(loads) :
        loads[i].source = loads[j].source => loads[i].key = loads[j].key

\* The nodes that the Children links reach from a node.
RECURSIVE ReachableFrom(_)
ReachableFrom(node) ==
    {node} \cup UNION {ReachableFrom(doc.nodes[node].Children[k]) :
                          k \in 1..Len(doc.nodes[node].Children)}

PlacesIn(parent, node) ==
    {k \in 1..Len(doc.nodes[parent].Children) : doc.nodes[parent].Children[k] = node}

\* The element that the tokens read so far leave innermost open, 0 for none: the
\* nodes are numbered by their start tags.
RECURSIVE InnermostOpen(_, _)
InnermostOpen(tokens, n) ==
    LET starts == Cardinality({k \in 1..n : tokens[k].kind = "StartElement"})
        opened == {k \in 1..n : /\ tokens[k].kind = "StartElement"
                                /\ \A m \in (k + 1)..n :
                                       OpenElements(tokens, m) >= OpenElements(tokens, k)}
    IN IF opened = {} THEN 0
       ELSE Cardinality({k \in 1..(CHOOSE last \in opened : \A o \in opened : o <= last) :
                            tokens[k].kind = "StartElement"})

\* C27: while Parse reads, the current node is the innermost open element; once Parse
\* has succeeded, Root is the first start element and has no parent, every element
\* started is reachable from Root, and every other node stands exactly once among the
\* children of its parent, the children in document order.
C27_SingleRootedTree ==
    /\ pc = "parsing" => doc.currentNode = InnermostOpen(input.tokens, doc.pos - 1)
    /\ pc = "parsed" =>
          /\ doc.Root = 1
          /\ doc.nodes[doc.Root].Parent = 0
          /\ \A node \in 1..Len(doc.nodes) : node \in ReachableFrom(doc.Root)
          /\ \A node \in 1..Len(doc.nodes) :
                node # doc.Root =>
                    /\ doc.nodes[node].Parent # 0
                    /\ Cardinality(PlacesIn(doc.nodes[node].Parent, node)) = 1
          /\ \A node \in 1..Len(doc.nodes) :
                \A k \in 2..Len(doc.nodes[node].Children) :
                    doc.nodes[node].Children[k - 1] < doc.nodes[node].Children[k]

\* C28: Validate and ParseXSD are deterministic: the report is the one that every run
\* of Validate on this schema and this document returns, whatever order the maps are
\* ranged over, and when an import is merged one prefix only can be chosen for its
\* namespace.
C28_Deterministic ==
    /\ (pc = "done" /\ report # NoReport) =>
          \A ord \in BOOLEAN : report = ValidateResult(result, ord, doc)
    /\ (pc = "resolving" /\ Len(stack) >= 2 /\ Top.via = "import") =>
          Cardinality(getNamespacePrefix(stack[Len(stack) - 1].schema, Top.ref.Namespace)) = 1

\* The type names a schema declares, simple and complex.
DeclaredTypes(s) == Names(s.ComplexTypes) \cup Names(s.SimpleTypes)

\* C29: import merging preserves referential integrity: when an import is merged, with
\* or without a prefix, every element of the imported fragment whose type attribute
\* names one of the fragment's own simple or complex types is appended as an element
\* whose type attribute names a type of the importing schema.
C29_ImportKeepsReferences ==
    [][ImportMerged =>
          LET imported == Top.schema
              before == stack[Len(stack) - 1].schema
              after == stack'[Len(stack')].schema
          IN \A i \in 1..Len(imported.Elements) :
                 imported.Elements[i].Type \in DeclaredTypes(imported)
                     => /\ Len(after.Elements) = Len(before.Elements) + Len(imported.Elements)
                        /\ after.Elements[Len(before.Elements) + i].Type
                               \in DeclaredTypes(after)]_vars

\* C29 narrowed to the imports merged without a prefix.
C29_VerbatimKeepsReferences ==
    [][(ImportMerged /\ getNamespacePrefixes(stack[Len(stack) - 1].schema, Top.ref.Namespace) = {})
          => LET imported == Top.schema
                 before == stack[Len(stack) - 1].schema
                 after == stack'[Len(stack')].schema
             IN \A i \in 1..Len(imported.Elements) :
                    imported.Elements[i].Type \in DeclaredTypes(imported)
                        => after.Elements[Len(before.Elements) + i].Type
                               \in DeclaredTypes(after)]_vars

\* The resolution went through includes only.
IncludesOnly == \A k \in 1..Len(loads) : loads[k].via = "include"

\* The named top-level definitions written in the file.
NamedIn(file) ==
    (Names(Files[file].Elements) \cup Names(Files[file].ComplexTypes)
        \cup Names(Files[file].SimpleTypes)) \ {EmptyStr}

\* The pairs of loads that fetched one file at one location: the location had left the
\* visited set in between, so the first of the two belongs to a branch that returned.
TwiceLoaded ==
    {p \in (1..Len(loads)) \X (1..Len(loads)) :
        /\ p[1] < p[2]
        /\ loads[p[1]].ok /\ loads[p[2]].ok
        /\ loads[p[1]].key = loads[p[2]].key
        /\ loads[p[1]].source = loads[p[2]].source
        /\ ~loads[p[1]].source.url
        /\ NamedIn(loads[p[1]].source.at) # {}}

\* C30: a file that declares a named top-level definition and is included from two
\* sibling branches is loaded once per reference, and ParseXSD then fails and returns no
\* schema; when every referenced file could be fetched, the error is the
\* duplicate-definition error.
C30_DiamondInclude ==
    (pc = "done" /\ IncludesOnly /\ TwiceLoaded # {}) =>
        /\ result = Nil
        /\ err # NoError
        /\ (\A k \in 1..Len(loads) : loads[k].ok) => err.kind = "duplicate"

C30_Witness ==
    /\ pc = "done"
    /\ IncludesOnly
    /\ Len(loads) = 5
    /\ loads[1].source.at = <<"w", "dia.xsd">>
    /\ <<3, 5>> \in TwiceLoaded
    /\ loads[3].source.at = <<"w", "leaf.xsd">>
    /\ err = [kind |-> "duplicate", what |-> "simpleType"]

====
